---- MODULE Spec2Model ----
(***************************************************************************)
(* Draft decision engine of SleeperLiveDraftRankingsV2: the snake-draft    *)
(* seat mapper and roster analyzer (services/team_analyzer.py), the        *)
(* dynasty/keeper classifiers (services/sleeper_api.py), the rankings      *)
(* repository with its name matcher (rankings/SimpleRankingsManager.py)    *)
(* and the VBD replacement index (services/vbd_calculator.py).             *)
(***************************************************************************)
EXTENDS Integers, Sequences, FiniteSets, TLC

VARIABLES
    \* ---- seat mapper call (TeamAnalyzer._calculate_team_index) ----
    seat_pick_no,      \* argument pick_no
    seat_total_teams,  \* argument total_teams
    seat_draft_type,   \* argument draft_type
    seat_result,       \* <<team index>> once returned, <<>> before the call
    \* ---- roster analysis (TeamAnalyzer.analyze_team_rosters) ----
    draft_picks,       \* argument draft_picks: sequence of pick records
    draft_info,        \* argument draft_info: <<[teams, rounds, type]>>
    team_rosters,      \* the rosters the analyzer built last, by team index
    an_results,        \* the values returned by successive calls
    \* ---- dynasty / keeper classification (SleeperAPI) ----
    league_info,       \* <<the league-info dictionary>> being classified
    cls_standalone,    \* <<result>> of is_dynasty_or_keeper_league, <<>> before
    cls_inline,        \* <<is_dynasty>> of get_all_unavailable_players
    \* ---- rankings repository (SimpleRankingsManager) ----
    rankings_table,    \* <<the loaded ranking table [columns, rows]>>
    sleeper_players,   \* the player directory, in dictionary order
    drafted_players,   \* argument drafted_players: set of canonical ids
    position_filter,   \* argument position_filter: a text, <<>> when absent
    limit,             \* argument limit
    rk_returned,       \* <<list returned by get_available_players>>
    match_name,        \* argument player_name of _find_sleeper_match
    match_result,      \* <<its result>>: <<<<id>>>> or <<<<>>>> for None
    \* ---- VBD replacement index (VBDCalculator._calculate_baselines) ----
    vbd_position,      \* position whose baseline is computed
    vbd_format,        \* league_format
    vbd_league_size,   \* league_size
    vbd_demand,        \* sequence of total_demand values computed so far
    \* ---- unavailability resolver and upstream accessors (SleeperAPI) ----
    rs_draft_id,       \* argument draft_id ("" when it is missing)
    rs_league_id,      \* argument league_id: <<id>>, <<>> for None
    rs_upstream,       \* what the n-th request to each endpoint meets
    rs_draft_info,     \* the draft-info dictionary the remote source holds
    rs_players_cache,  \* SleeperAPI._players_cache is filled
    rs_result,         \* <<outcome of the call>>, <<>> before it
    \* ---- rankings refresh (RankingsManager._fantasy_pros_cache) ----
    rf_cache,          \* self._fantasy_pros_cache: file name -> table
    rf_disk,           \* the ranking files on disk, by directory
    rf_last_scrape_time, \* self._last_scrape_time is set
    rf_pc,             \* where the refreshing thread is
    rf_todo,           \* the files the disk load has still to read
    rf_before,         \* <<the tables held when the refresh began>>
    rf_reads,          \* the tables seen by the reads of other threads
    \* ---- league format detection (SleeperAPI.detect_league_format) ----
    fm_league,         \* <<the league JSON, keys and lists in their order>>
    fm_detected,       \* what was detected for each ordering tried
    ep_draft_info,     \* <<the draft the remote source holds>>
    ep_players_cache,  \* SleeperAPI._players_cache is loaded
    ep_rankings,       \* "ok", or "raises" when the rankings manager fails
    ep_upstream,       \* what the requests of the served call met
    ep_response,       \* <<the response of the endpoint>>
    nd_roster,         \* <<a roster as the pick loop leaves it>>
    nd_analysed,       \* <<that roster after _analyze_team_needs>>
    nd_previous,       \* <<position added last, strength score before it>>
    vm_players,        \* the players handed to calculate_vbd_metrics
    vm_league_format,  \* its league_format
    vm_league_size,    \* its league_size
    vm_result,         \* <<what it returned>>
    q_available,       \* the available entries the rankings hold, by rank
    q_filters,         \* the filters of the query; <<>> is not supplied
    q_limit,           \* the limit of the query
    q_returned,        \* <<the available_players of the response>>
    ta_response,       \* <<the response of the team-analysis endpoint>>
    bd_pick,           \* the pick upstream that the draft board is built of
    bd_info,           \* the draft info of the board: teams, rounds, type
    bd_filed,          \* <<where the board filed the pick>>
    rc_players,        \* the available players with their VBD metrics
    rc_team_needs,     \* the needs of the team: critical, important
    rc_limit,          \* num_recommendations
    rc_result          \* <<the recommendations returned>>

seatVars == <<seat_pick_no, seat_total_teams, seat_draft_type, seat_result>>
anVars   == <<draft_picks, draft_info, team_rosters, an_results>>
clsVars  == <<league_info, cls_standalone, cls_inline>>
rankVars == <<rankings_table, sleeper_players, drafted_players,
              position_filter, limit, rk_returned, match_name, match_result>>
vbdVars  == <<vbd_position, vbd_format, vbd_league_size, vbd_demand>>
rsVars   == <<rs_draft_id, rs_league_id, rs_upstream, rs_draft_info,
              rs_players_cache, rs_result>>
rfVars   == <<rf_cache, rf_disk, rf_last_scrape_time, rf_pc, rf_todo,
              rf_before, rf_reads>>
fmVars   == <<fm_league, fm_detected>>
epVars   == <<ep_draft_info, ep_players_cache, ep_rankings, ep_upstream,
              ep_response>>
ndVars   == <<nd_roster, nd_analysed, nd_previous>>
vmVars   == <<vm_players, vm_league_format, vm_league_size, vm_result>>
qVars    == <<q_available, q_filters, q_limit, q_returned>>
taVars   == <<ta_response>>
boardVars == <<bd_pick, bd_info, bd_filed>>
recVars  == <<rc_players, rc_team_needs, rc_limit, rc_result>>
vars     == <<seatVars, anVars, clsVars, rankVars, vbdVars, rsVars, rfVars,
             fmVars, epVars, ndVars, vmVars, qVars, taVars, boardVars,
             recVars>>

None == "None"

(***************************************************************************)
(* Bounds of the model.                                                    *)
(***************************************************************************)
MaxSeatTeams == 10   \* team counts tried on the seat mapper
MaxSeatPick  == 20   \* pick numbers tried on the seat mapper
MaxTeams     == 4    \* team counts of analysed drafts
MaxRounds    == 3    \* round counts of analysed drafts
MaxCalls     == 2    \* calls of analyze_team_rosters per analyzer

(***************************************************************************)
(* Idle values: a component that a specification does not exercise stays   *)
(* in these.                                                               *)
(***************************************************************************)
SeatIdle == /\ seat_pick_no = 0 /\ seat_total_teams = 0
            /\ seat_draft_type = None /\ seat_result = <<>>
AnIdle   == /\ draft_picks = <<>> /\ draft_info = <<>>
            /\ team_rosters = <<>> /\ an_results = <<>>
ClsIdle  == /\ league_info = <<>> /\ cls_standalone = <<>> /\ cls_inline = <<>>
RankIdle == /\ rankings_table = <<>> /\ sleeper_players = <<>>
            /\ drafted_players = {} /\ position_filter = <<>> /\ limit = 0
            /\ rk_returned = <<>> /\ match_name = <<>> /\ match_result = <<>>
VbdIdle  == /\ vbd_position = None /\ vbd_format = None
            /\ vbd_league_size = 0 /\ vbd_demand = <<>>
RsIdle   == /\ rs_draft_id = None /\ rs_league_id = <<>>
            /\ rs_upstream = <<>> /\ rs_draft_info = <<>>
            /\ rs_players_cache = FALSE /\ rs_result = <<>>
RfIdle   == /\ rf_cache = <<>> /\ rf_disk = <<>>
            /\ rf_last_scrape_time = FALSE /\ rf_pc = None
            /\ rf_todo = <<>> /\ rf_before = <<>> /\ rf_reads = {}
FmIdle   == /\ fm_league = <<>> /\ fm_detected = <<>>
EpIdle   == /\ ep_draft_info = <<>> /\ ep_players_cache = FALSE
            /\ ep_rankings = None /\ ep_upstream = <<>> /\ ep_response = <<>>
NdIdle   == /\ nd_roster = <<>> /\ nd_analysed = <<>> /\ nd_previous = <<>>
VmIdle   == /\ vm_players = <<>> /\ vm_league_format = None
            /\ vm_league_size = 0 /\ vm_result = <<>>
QIdle    == /\ q_available = <<>> /\ q_filters = <<>>
            /\ q_limit = 0 /\ q_returned = <<>>
TaIdle   == ta_response = <<>>
BdIdle   == bd_pick = <<>> /\ bd_info = <<>> /\ bd_filed = <<>>
RecIdle  == /\ rc_players = <<>> /\ rc_team_needs = <<>>
            /\ rc_limit = 0 /\ rc_result = <<>>

(***************************************************************************)
(* Draft Seat Mapper                                                       *)
(***************************************************************************)
DraftTypes == {"snake", "linear", "auction"}

\* The same mapper with the round taken from pick_no instead of pick_no - 1.
_calculate_team_index_round_off(pick_no, total_teams, draft_type) ==
    IF draft_type = "snake"
    THEN LET round_num == (pick_no \div total_teams) + 1
         IN  IF round_num % 2 = 1
             THEN (pick_no - 1) % total_teams
             ELSE total_teams - 1 - ((pick_no - 1) % total_teams)
    ELSE (pick_no - 1) % total_teams

_calculate_team_index(pick_no, total_teams, draft_type) ==
    IF draft_type = "snake"
    THEN LET round_num == ((pick_no - 1) \div total_teams) + 1
         IN  IF round_num % 2 = 1
             THEN (pick_no - 1) % total_teams
             ELSE total_teams - 1 - ((pick_no - 1) % total_teams)
    ELSE (pick_no - 1) % total_teams

SeatInit ==
    /\ seat_pick_no \in 1..MaxSeatPick
    /\ seat_total_teams \in 1..MaxSeatTeams
    /\ seat_draft_type \in DraftTypes
    /\ seat_result = <<>>
    /\ AnIdle /\ ClsIdle /\ RankIdle /\ VbdIdle /\ RsIdle /\ RfIdle /\ FmIdle /\ EpIdle /\ NdIdle /\ VmIdle /\ QIdle /\ TaIdle /\ BdIdle /\ RecIdle

CalcSeat ==
    /\ seat_result = <<>>
    /\ seat_result' = <<_calculate_team_index(seat_pick_no, seat_total_teams,
                                              seat_draft_type)>>
    /\ UNCHANGED <<seat_pick_no, seat_total_teams, seat_draft_type>>
    /\ UNCHANGED <<anVars, clsVars, rankVars, vbdVars, rsVars, rfVars, fmVars, epVars, ndVars, vmVars, qVars, taVars, boardVars, recVars>>

SeatNext == CalcSeat

SpecSeat == SeatInit /\ [][SeatNext]_vars

\* C2: for pickNumber >= 1 and teamCount >= 1 the seat mapper returns an
\* index in 0..teamCount-1 equal to (pickNumber-1) mod teamCount on odd
\* snake rounds and in every linear round, and to
\* teamCount-1-((pickNumber-1) mod teamCount) on even snake rounds, where
\* round = floor((pickNumber-1)/teamCount)+1; with ten teams, snake pick 11
\* maps to team 9 (as pick 10 does) and pick 20 to team 0.
SeatRound == ((seat_pick_no - 1) \div seat_total_teams) + 1
SeatFormula ==
    seat_result # <<>> =>
        LET teamIndex == seat_result[1] IN
        /\ teamIndex \in 0..(seat_total_teams - 1)
        /\ (seat_draft_type = "snake" /\ SeatRound % 2 = 1) =>
               teamIndex = (seat_pick_no - 1) % seat_total_teams
        /\ (seat_draft_type = "snake" /\ SeatRound % 2 = 0) =>
               teamIndex = seat_total_teams - 1
                             - ((seat_pick_no - 1) % seat_total_teams)
        /\ seat_draft_type = "linear" =>
               teamIndex = (seat_pick_no - 1) % seat_total_teams
        /\ (seat_draft_type = "snake" /\ seat_total_teams = 10) =>
               /\ seat_pick_no = 10 => teamIndex = 9
               /\ seat_pick_no = 11 => teamIndex = 9
               /\ seat_pick_no = 20 => teamIndex = 0

SeatFormulaWitness ==
    /\ seat_draft_type = "snake" /\ seat_total_teams = 10
    /\ seat_pick_no = 11 /\ seat_result = <<9>>

(***************************************************************************)
(* Roster Needs Analyzer                                                   *)
(***************************************************************************)
PositionKeys == {"QB", "RB", "WR", "TE", "K", "DEF", "Unknown"}

\* Argument all_players: the directory, player id -> position.  "p7" is a
\* drafted id the directory does not know.
all_players ==
    [p \in {"p1", "p2", "p3", "p4", "p5", "p6"} |->
        CASE p = "p1" -> "RB" [] p = "p2" -> "WR" [] p = "p3" -> "QB"
          [] p = "p4" -> "TE" [] p = "p5" -> "K"  [] p = "p6" -> "DEF"]
DraftedIds == <<"p1", "p2", "p3", "p1", "p4", "p2", "p5", "p6", "p7">>

\* all_players.get(player_id, {}).get('position', 'Unknown')
PositionOf(player_id) ==
    IF player_id \in DOMAIN all_players THEN all_players[player_id]
    ELSE "Unknown"

\* Rosters that keep what the previous call left behind.
StaleRosters(total_teams) ==
    [i \in 0..(total_teams - 1) |->
        IF i \in DOMAIN team_rosters
        THEN [team_index |-> i, picks |-> team_rosters[i].picks,
              positions |-> team_rosters[i].positions,
              position_counts |-> team_rosters[i].position_counts,
              total_picks |-> team_rosters[i].total_picks,
              rounds_completed |-> team_rosters[i].rounds_completed]
        ELSE [team_index |-> i, picks |-> <<>>,
              positions |-> [p \in PositionKeys |-> <<>>],
              position_counts |-> [p \in PositionKeys |-> 0],
              total_picks |-> 0, rounds_completed |-> 0]]

\* team_rosters as initialised at the start of every call
FreshRosters(total_teams) ==
    [i \in 0..(total_teams - 1) |->
        [team_index |-> i, picks |-> <<>>,
         positions |-> [p \in PositionKeys |-> <<>>],
         position_counts |-> [p \in PositionKeys |-> 0],
         total_picks |-> 0, rounds_completed |-> 0]]

Max2(a, b) == IF a >= b THEN a ELSE b
Min2(a, b) == IF a <= b THEN a ELSE b

\* The loop body that does not look at the round of the pick.
ProcessPick_any_round(rosters, pick, total_teams, draft_type) ==
    IF pick.pick_no > 0 /\ pick.player_id # None
    THEN LET team_index ==
                 _calculate_team_index(pick.pick_no, total_teams, draft_type)
             position  == PositionOf(pick.player_id)
             pick_info == [pick_no |-> pick.pick_no, round |-> pick.round,
                           player_id |-> pick.player_id,
                           position |-> position]
             r == rosters[team_index]
         IN  [rosters EXCEPT ![team_index] =
                [r EXCEPT
                   !.picks = Append(r.picks, pick_info),
                   !.positions[position] =
                       Append(r.positions[position], pick_info),
                   !.position_counts[position] =
                       r.position_counts[position] + 1,
                   !.total_picks = r.total_picks + 1,
                   !.rounds_completed =
                       Max2(r.rounds_completed, pick.round)]]
    ELSE rosters

\* The body of the loop over draft_picks, for one pick.
ProcessPick(rosters, pick, total_teams, draft_type) ==
    IF pick.pick_no > 0 /\ pick.round > 0 /\ pick.player_id # None
    THEN LET team_index ==
                 _calculate_team_index(pick.pick_no, total_teams, draft_type)
         IN  IF 0 <= team_index /\ team_index < total_teams
             THEN LET position  == PositionOf(pick.player_id)
                      pick_info == [pick_no |-> pick.pick_no,
                                    round |-> pick.round,
                                    player_id |-> pick.player_id,
                                    position |-> position]
                      r == rosters[team_index]
                  IN  [rosters EXCEPT ![team_index] =
                         [r EXCEPT
                            !.picks = Append(r.picks, pick_info),
                            !.positions[position] =
                                Append(r.positions[position], pick_info),
                            !.position_counts[position] =
                                r.position_counts[position] + 1,
                            !.total_picks = r.total_picks + 1,
                            !.rounds_completed =
                                Max2(r.rounds_completed, pick.round)]]
             ELSE rosters
    ELSE rosters

RECURSIVE ProcessPicks(_, _, _, _, _)
ProcessPicks(rosters, picks, i, total_teams, draft_type) ==
    IF i > Len(picks) THEN rosters
    ELSE ProcessPicks(ProcessPick(rosters, picks[i], total_teams,
                                  draft_type),
                      picks, i + 1, total_teams, draft_type)

OptList(cond, x) == IF cond THEN <<x>> ELSE <<>>

\* The score that counts the starting quarterback of a roster with exactly
\* one.
_calculate_team_strength_single_qb(position_counts) ==
    LET starters ==
            (IF position_counts["QB"] = 1 THEN 10 ELSE 0)
          + (IF position_counts["RB"] >= 2 THEN 15
             ELSE IF position_counts["RB"] >= 1 THEN 8 ELSE 0)
          + (IF position_counts["WR"] >= 2 THEN 15
             ELSE IF position_counts["WR"] >= 1 THEN 8 ELSE 0)
          + (IF position_counts["TE"] >= 1 THEN 10 ELSE 0)
          + (IF position_counts["K"] >= 1 THEN 5 ELSE 0)
          + (IF position_counts["DEF"] >= 1 THEN 5 ELSE 0)
        depth ==
            Min2(position_counts["RB"] - 2, 2) * 5
          + Min2(position_counts["WR"] - 2, 3) * 5
          + Min2(position_counts["QB"] - 1, 1) * 5
          + Min2(position_counts["TE"] - 1, 1) * 5
    IN  Min2(starters + depth, 100)

_calculate_team_strength(position_counts) ==
    LET starters ==
            (IF position_counts["QB"] >= 1 THEN 10 ELSE 0)
          + (IF position_counts["RB"] >= 2 THEN 15
             ELSE IF position_counts["RB"] >= 1 THEN 8 ELSE 0)
          + (IF position_counts["WR"] >= 2 THEN 15
             ELSE IF position_counts["WR"] >= 1 THEN 8 ELSE 0)
          + (IF position_counts["TE"] >= 1 THEN 10 ELSE 0)
          + (IF position_counts["K"] >= 1 THEN 5 ELSE 0)
          + (IF position_counts["DEF"] >= 1 THEN 5 ELSE 0)
        depth ==
            Min2(position_counts["RB"] - 2, 2) * 5
          + Min2(position_counts["WR"] - 2, 3) * 5
          + Min2(position_counts["QB"] - 1, 1) * 5
          + Min2(position_counts["TE"] - 1, 1) * 5
    IN  Min2(starters + depth, 100)

_rate_position_strength(position, count) ==
    CASE position = "QB" ->
           IF count >= 2 THEN "Strong"
           ELSE IF count >= 1 THEN "Adequate" ELSE "Weak"
      [] position \in {"RB", "WR"} ->
           IF count >= 4 THEN "Strong"
           ELSE IF count >= 3 THEN "Adequate"
           ELSE IF count >= 2 THEN "Minimal" ELSE "Weak"
      [] position = "TE" ->
           IF count >= 2 THEN "Strong"
           ELSE IF count >= 1 THEN "Adequate" ELSE "Weak"
      [] OTHER -> "Unknown"

CountPos(picks, n, position) ==
    Cardinality({k \in 1..Min2(n, Len(picks)) : picks[k].position = position})

_identify_draft_strategy(picks) ==
    IF Len(picks) < 3 THEN "Unknown"
    ELSE IF CountPos(picks, 3, "RB") >= 2 THEN "RB Heavy"
    ELSE IF CountPos(picks, 3, "WR") >= 2 THEN "WR Heavy"
    ELSE IF CountPos(picks, 2, "QB") >= 1 THEN "Early QB"
    ELSE IF CountPos(picks, 3, "TE") >= 1 /\ picks[1].position # "TE"
         THEN "Premium TE"
    ELSE "Balanced"

\* The needs analysis that asks for a kicker from round 12 on.
_analyze_team_needs_kicker_at_12(roster) ==
    LET c == roster.position_counts
        needs ==
          [critical |->
                 OptList(c["QB"] = 0, "QB") \o OptList(c["RB"] < 2, "RB")
              \o OptList(c["WR"] < 2, "WR") \o OptList(c["TE"] = 0, "TE"),
           important |->
                 OptList(c["RB"] < 3, "RB") \o OptList(c["WR"] < 3, "WR")
              \o OptList(c["QB"] < 2, "QB") \o OptList(c["TE"] < 2, "TE")
              \o OptList(c["K"] = 0 /\ roster.rounds_completed >= 12, "K")
              \o OptList(c["DEF"] = 0 /\ roster.rounds_completed > 13, "DEF"),
           depth |->
                 OptList(c["RB"] < 4, "RB") \o OptList(c["WR"] < 5, "WR"),
           luxury |-> <<>>]
    IN  [team_index |-> roster.team_index, picks |-> roster.picks,
         positions |-> roster.positions,
         position_counts |-> c,
         total_picks |-> roster.total_picks,
         rounds_completed |-> roster.rounds_completed,
         needs |-> needs,
         strength_score |-> _calculate_team_strength(c),
         position_strength |->
             [p \in {q \in {"QB", "RB", "WR", "TE"} : c[q] > 0} |->
                 _rate_position_strength(p, c[p])],
         draft_strategy |-> _identify_draft_strategy(roster.picks)]

\* roster.update(self._analyze_team_needs(roster, total_rounds))
_analyze_team_needs(roster) ==
    LET c == roster.position_counts
        needs ==
          [critical |->
                 OptList(c["QB"] = 0, "QB") \o OptList(c["RB"] < 2, "RB")
              \o OptList(c["WR"] < 2, "WR") \o OptList(c["TE"] = 0, "TE"),
           important |->
                 OptList(c["RB"] < 3, "RB") \o OptList(c["WR"] < 3, "WR")
              \o OptList(c["QB"] < 2, "QB") \o OptList(c["TE"] < 2, "TE")
              \o OptList(c["K"] = 0 /\ roster.rounds_completed > 12, "K")
              \o OptList(c["DEF"] = 0 /\ roster.rounds_completed > 13, "DEF"),
           depth |->
                 OptList(c["RB"] < 4, "RB") \o OptList(c["WR"] < 5, "WR"),
           luxury |-> <<>>]
    IN  [team_index |-> roster.team_index, picks |-> roster.picks,
         positions |-> roster.positions,
         position_counts |-> c,
         total_picks |-> roster.total_picks,
         rounds_completed |-> roster.rounds_completed,
         needs |-> needs,
         strength_score |-> _calculate_team_strength(c),
         position_strength |->
             [p \in {q \in {"QB", "RB", "WR", "TE"} : c[q] > 0} |->
                 _rate_position_strength(p, c[p])],
         draft_strategy |-> _identify_draft_strategy(roster.picks)]

RECURSIVE SumTotalPicks(_, _)
SumTotalPicks(rosters, n) ==
    IF n = 0 THEN 0
    ELSE rosters[n - 1].total_picks + SumTotalPicks(rosters, n - 1)

analyze_team_rosters(picks, info) ==
    LET total_teams  == info.teams
        total_rounds == info.rounds
        filled   == ProcessPicks(FreshRosters(total_teams), picks, 1,
                                 total_teams, info.type)
        analysed == [i \in DOMAIN filled |-> _analyze_team_needs(filled[i])]
    IN  [team_rosters |-> analysed,
         total_teams |-> total_teams,
         total_rounds |-> total_rounds,
         draft_type |-> info.type,
         analysis_summary |->
             [total_picks_made |-> SumTotalPicks(analysed, total_teams)]]

(* The pick list of a draft of T teams and R rounds in pick order; offset   *)
(* rotates the drafted ids; pick number `defect` (0: none) lacks its        *)
(* player, its pick number or its round.                                    *)
DefectKinds == {"null_player", "zero_pick_no", "zero_round"}
PickList(T, R, offset, defect, kind) ==
    [i \in 1..(T * R) |->
        [pick_no   |-> IF i = defect /\ kind = "zero_pick_no" THEN 0 ELSE i,
         round     |-> IF i = defect /\ kind = "zero_round" THEN 0
                       ELSE ((i - 1) \div T) + 1,
         player_id |-> IF i = defect /\ kind = "null_player" THEN None
                       ELSE DraftedIds[((i - 1 + offset) % Len(DraftedIds)) + 1]]]

MaxOffset == 2

AnInit ==
    /\ \E T \in 1..MaxTeams, R \in 1..MaxRounds, ty \in DraftTypes,
          o \in 0..MaxOffset :
          /\ draft_info = <<[teams |-> T, rounds |-> R, type |-> ty]>>
          /\ \E d \in 0..(T * R), k \in DefectKinds :
                draft_picks = PickList(T, R, o, d, k)
    /\ team_rosters = <<>>
    /\ an_results = <<>>
    /\ SeatIdle /\ ClsIdle /\ RankIdle /\ VbdIdle /\ RsIdle /\ RfIdle /\ FmIdle /\ EpIdle /\ NdIdle /\ VmIdle /\ QIdle /\ TaIdle /\ BdIdle /\ RecIdle

\* One call of analyze_team_rosters: the rosters are rebuilt and returned.
Analyze ==
    /\ Len(an_results) < MaxCalls
    /\ LET returned == analyze_team_rosters(draft_picks, draft_info[1])
       IN  /\ team_rosters' = returned.team_rosters
           /\ an_results' = Append(an_results, returned)
    /\ UNCHANGED <<draft_picks, draft_info>>
    /\ UNCHANGED <<seatVars, clsVars, rankVars, vbdVars, rsVars, rfVars, fmVars, epVars, ndVars, vmVars, qVars, taVars, boardVars, recVars>>

AnNext == Analyze

SpecAnalyze == AnInit /\ [][AnNext]_vars

\* The pick list is that of a completed snake draft: picks 1..teams*rounds
\* in pick order, each with its player and its round.
CompletedSnakeDraft ==
    /\ draft_info # <<>>
    /\ draft_info[1].type = "snake"
    /\ Len(draft_picks) = draft_info[1].teams * draft_info[1].rounds
    /\ \A i \in DOMAIN draft_picks :
          /\ draft_picks[i].pick_no = i
          /\ draft_picks[i].round > 0
          /\ draft_picks[i].player_id # None

StrictlyIncreasing(picks) ==
    \A a, b \in DOMAIN picks : a < b => picks[a].pick_no < picks[b].pick_no

\* C1: replaying picks 1..teamCount*roundCount of a completed snake draft,
\* in pick order, gives every team index exactly roundCount picks, with
\* strictly increasing pick numbers inside each team.
SnakeDraftEvenSplit ==
    CompletedSnakeDraft =>
        \A n \in DOMAIN an_results :
            LET rosters == an_results[n].team_rosters IN
            /\ DOMAIN rosters = 0..(draft_info[1].teams - 1)
            /\ \A t \in DOMAIN rosters :
                  /\ Len(rosters[t].picks) = draft_info[1].rounds
                  /\ StrictlyIncreasing(rosters[t].picks)

SnakeDraftEvenSplitWitness ==
    /\ CompletedSnakeDraft
    /\ draft_info[1].teams = 3 /\ draft_info[1].rounds = 3
    /\ an_results # <<>>
    /\ Len(an_results[1].team_rosters[2].picks) = 3
    /\ an_results[1].team_rosters[2].picks[2].pick_no = 4

MaxKeepers == 2   \* largest max_keepers tried
MaxTaxi    == 2   \* largest taxi_slots tried

LeagueTypes == {0, 1, 2}
SettingValues(key) ==
    CASE key = "type"        -> LeagueTypes
      [] key = "max_keepers" -> 0..MaxKeepers
      [] key = "taxi_slots"  -> 0..MaxTaxi

\* The settings dictionaries: any subset of the three keys may be missing.
SettingsDicts ==
    UNION { { s \in [K -> Int \cap (0..(MaxKeepers + MaxTaxi + 2))] :
                \A k \in K : s[k] \in SettingValues(k) } :
            K \in SUBSET {"type", "max_keepers", "taxi_slots"} }

\* The league-info dictionaries: 'settings' and 'previous_league_id' may be
\* missing, and previous_league_id may be null.
LeagueInfos ==
    { [x \in {} |-> 0] }
    \cup { [k \in {"previous_league_id"} |-> pl] : pl \in {None, "L1"} }
    \cup { [k \in {"settings"} |-> st] : st \in SettingsDicts }
    \cup { [settings |-> st, previous_league_id |-> pl] :
             st \in SettingsDicts, pl \in {None, "L1"} }

\* dict.get(key, default)
Get(dict, key, default) == IF key \in DOMAIN dict THEN dict[key] ELSE default

\* dict.get(key) == value, where a missing key yields None
GetEquals(dict, key, value) == key \in DOMAIN dict /\ dict[key] = value

\* truth value of dict.get(key) for a string-or-None entry
GetTruthy(dict, key) == key \in DOMAIN dict /\ dict[key] # None

\* The standalone classifier counting a single keeper as a keeper league.
is_dynasty_or_keeper_league_any_keeper(info) ==
    IF DOMAIN info = {} \/ "settings" \notin DOMAIN info THEN FALSE
    ELSE LET settings == info["settings"] IN
         IF GetEquals(settings, "type", 2) THEN TRUE
         ELSE IF Get(settings, "max_keepers", 0) > 0 THEN TRUE
         ELSE IF Get(settings, "taxi_slots", 0) > 0 THEN TRUE
         ELSE IF GetTruthy(info, "previous_league_id") THEN TRUE
         ELSE FALSE

\* SleeperAPI.is_dynasty_or_keeper_league
is_dynasty_or_keeper_league(info) ==
    IF DOMAIN info = {} \/ "settings" \notin DOMAIN info THEN FALSE
    ELSE LET settings == info["settings"] IN
         IF GetEquals(settings, "type", 2) THEN TRUE
         ELSE IF Get(settings, "max_keepers", 0) > 1 THEN TRUE
         ELSE IF Get(settings, "taxi_slots", 0) > 0 THEN TRUE
         ELSE IF GetTruthy(info, "previous_league_id") THEN TRUE
         ELSE FALSE

\* The "direct dynasty detection" inside get_all_unavailable_players,
\* from `if league_info:` to the value of is_dynasty.
inline_dynasty_detection(info) ==
    IF DOMAIN info = {} THEN FALSE
    ELSE LET settings     == Get(info, "settings", <<>>)
             type_is_2    == GetEquals(settings, "type", 2)
             max_keepers  == Get(settings, "max_keepers", 0)
             taxi_slots   == Get(settings, "taxi_slots", 0)
             previous_league == GetTruthy(info, "previous_league_id")
         IN  IF type_is_2 THEN TRUE
             ELSE IF taxi_slots > 0 THEN TRUE
             ELSE IF max_keepers > 1 THEN TRUE
             ELSE IF previous_league
                  THEN IF max_keepers > 1 \/ taxi_slots > 0 \/ type_is_2
                       THEN TRUE ELSE FALSE
             ELSE FALSE

ClsInit ==
    /\ \E info \in LeagueInfos : league_info = <<info>>
    /\ cls_standalone = <<>>
    /\ cls_inline = <<>>
    /\ SeatIdle /\ AnIdle /\ RankIdle /\ VbdIdle /\ RsIdle /\ RfIdle /\ FmIdle /\ EpIdle /\ NdIdle /\ VmIdle /\ QIdle /\ TaIdle /\ BdIdle /\ RecIdle

\* a caller (the league endpoint) asks the standalone classifier
ClassifyStandalone ==
    /\ league_info # <<>>
    /\ cls_standalone = <<>>
    /\ cls_standalone' = <<is_dynasty_or_keeper_league(league_info[1])>>
    /\ UNCHANGED <<league_info, cls_inline>>
    /\ UNCHANGED <<seatVars, anVars, rankVars, vbdVars, rsVars, rfVars, fmVars, epVars, ndVars, vmVars, qVars, taVars, boardVars, recVars>>

\* get_all_unavailable_players classifies the league it fetched
ClassifyInline ==
    /\ league_info # <<>>
    /\ cls_inline = <<>>
    /\ cls_inline' = <<inline_dynasty_detection(league_info[1])>>
    /\ UNCHANGED <<league_info, cls_standalone>>
    /\ UNCHANGED <<seatVars, anVars, rankVars, vbdVars, rsVars, rfVars, fmVars, epVars, ndVars, vmVars, qVars, taVars, boardVars, recVars>>

ClsNext == ClassifyStandalone \/ ClassifyInline

SpecClassify == ClsInit /\ [][ClsNext]_vars

\* what the league configuration says
CfgSettings  == Get(league_info[1], "settings", <<>>)
CfgHasSettings == "settings" \in DOMAIN league_info[1]
CfgType0     == GetEquals(CfgSettings, "type", 0)
CfgTypeNot2  == ~GetEquals(CfgSettings, "type", 2)
CfgKeepers   == Get(CfgSettings, "max_keepers", 0)
CfgTaxi      == Get(CfgSettings, "taxi_slots", 0)
CfgHasPrevious == GetTruthy(league_info[1], "previous_league_id")

\* every classification made so far
Classifications ==
    {cls_standalone[i] : i \in DOMAIN cls_standalone}
      \cup {cls_inline[i] : i \in DOMAIN cls_inline}

\* C7: with type = 0, taxiSlots = 0, maxKeepers = 1 and no previousLeagueId
\* the league is classified redraft; the same league with taxiSlots > 0 is
\* classified dynasty/keeper; maxKeepers = 1 with no other signal never
\* qualifies.
SingleKeeperIsRedraft ==
    league_info # <<>> =>
        /\ (CfgType0 /\ CfgTaxi = 0 /\ CfgKeepers = 1 /\ ~CfgHasPrevious)
              => Classifications \subseteq {FALSE}
        /\ (CfgType0 /\ CfgTaxi > 0 /\ CfgKeepers = 1 /\ ~CfgHasPrevious
              /\ CfgHasSettings)
              => Classifications \subseteq {TRUE}
        /\ (CfgTypeNot2 /\ CfgTaxi = 0 /\ CfgKeepers = 1 /\ ~CfgHasPrevious)
              => Classifications \subseteq {FALSE}

SingleKeeperIsRedraftWitness ==
    /\ league_info # <<>>
    /\ CfgType0 /\ CfgTaxi = 2 /\ CfgKeepers = 1 /\ ~CfgHasPrevious
    /\ cls_standalone = <<TRUE>> /\ cls_inline = <<TRUE>>

\* C29: for every league-info the standalone classifier
\* is_dynasty_or_keeper_league and the classification made inline by
\* get_all_unavailable_players return the same boolean.
ClassifiersAgree ==
    (cls_standalone # <<>> /\ cls_inline # <<>>) =>
        cls_standalone[1] = cls_inline[1]

\* C8: when no dynasty signal holds (type is not 2, taxiSlots = 0,
\* maxKeepers <= 1) the classification is false, with or without a
\* previousLeagueId.
ContinuationAloneIsRedraft ==
    league_info # <<>> =>
        ((CfgTypeNot2 /\ CfgTaxi = 0 /\ CfgKeepers <= 1)
            => Classifications \subseteq {FALSE})

(***************************************************************************)
(* Value-Based-Drafting Engine: the replacement index                      *)
(***************************************************************************)
MaxLeagueSize == 14   \* largest league_size tried
MaxVbdCalls   == 2    \* baseline computations per behaviour

VbdPositions == {"QB", "RB", "WR", "TE", "K", "DEF"}
\* 'standard' and 'superflex' have their own lineup; any other format name
\* ("dynasty" here) falls back to the standard lineup.
VbdFormats == {"standard", "superflex", "dynasty"}

\* self.lineup_requirements
lineup_requirements ==
    [standard  |-> ("QB" :> 1 @@ "RB" :> 2 @@ "WR" :> 2 @@ "TE" :> 1
                    @@ "FLEX" :> 1 @@ "K" :> 1 @@ "DEF" :> 1),
     superflex |-> ("QB" :> 1 @@ "RB" :> 2 @@ "WR" :> 2 @@ "TE" :> 1
                    @@ "FLEX" :> 1 @@ "SUPERFLEX" :> 1 @@ "K" :> 1
                    @@ "DEF" :> 1)]

\* self.lineup_requirements.get(league_format, ...['standard'])
RequirementsFor(league_format) ==
    IF league_format \in DOMAIN lineup_requirements
    THEN lineup_requirements[league_format]
    ELSE lineup_requirements["standard"]

\* _get_bench_multiplier, in tenths: 0.5, 1.5, 1.2, 0.8, 0.1, 0.2, else 1.0
_get_bench_multiplier_x10(position) ==
    CASE position = "QB" -> 5  [] position = "RB" -> 15
      [] position = "WR" -> 12 [] position = "TE" -> 8
      [] position = "K" -> 1   [] position = "DEF" -> 2
      [] OTHER -> 10

\* int(x) for x = tenths / 10: truncation toward zero
IntOfTenths(tenths) ==
    IF tenths >= 0 THEN tenths \div 10 ELSE -((-tenths) \div 10)

\* The demand with the bench demand taken off instead of added.
total_demand_bench_subtracted(position, league_format, league_size) ==
    LET requirements  == RequirementsFor(league_format)
        base_starters == Get(requirements, position, 0) * league_size
        flex_eligible == position \in {"RB", "WR", "TE"}
        superflex_eligible ==
            position \in {"QB", "RB", "WR", "TE"} /\ league_format = "superflex"
        additional_x10 ==
            (IF flex_eligible
             THEN Get(requirements, "FLEX", 0) * league_size * 3 ELSE 0)
          + (IF superflex_eligible
             THEN Get(requirements, "SUPERFLEX", 0) * league_size * 2 ELSE 0)
        bench_x10 == base_starters * _get_bench_multiplier_x10(position)
    IN  IntOfTenths(10 * base_starters + additional_x10 - bench_x10)

\* total_demand of _calculate_baselines.  The code adds doubles; all terms
\* are kept in tenths here, which is exact, and for the league sizes of this
\* model the double sum truncates to the same integer.
total_demand(position, league_format, league_size) ==
    LET requirements  == RequirementsFor(league_format)
        base_starters == Get(requirements, position, 0) * league_size
        flex_eligible == position \in {"RB", "WR", "TE"}
        superflex_eligible ==
            position \in {"QB", "RB", "WR", "TE"} /\ league_format = "superflex"
        additional_x10 ==
            (IF flex_eligible
             THEN Get(requirements, "FLEX", 0) * league_size * 3 ELSE 0)
          + (IF superflex_eligible
             THEN Get(requirements, "SUPERFLEX", 0) * league_size * 2 ELSE 0)
        bench_x10 == base_starters * _get_bench_multiplier_x10(position)
    IN  IntOfTenths(10 * base_starters + additional_x10 + bench_x10)

VbdInit ==
    /\ vbd_position \in VbdPositions
    /\ vbd_format \in VbdFormats
    /\ vbd_league_size \in 1..MaxLeagueSize
    /\ vbd_demand = <<>>
    /\ SeatIdle /\ AnIdle /\ ClsIdle /\ RankIdle /\ RsIdle /\ RfIdle /\ FmIdle /\ EpIdle /\ NdIdle /\ VmIdle /\ QIdle /\ TaIdle /\ BdIdle /\ RecIdle

\* The baseline of vbd_position is computed for the current league size.
ComputeDemand ==
    /\ Len(vbd_demand) < MaxVbdCalls
    /\ vbd_demand' = Append(vbd_demand,
           [league_size |-> vbd_league_size,
            total_demand |-> total_demand(vbd_position, vbd_format,
                                          vbd_league_size)])
    /\ UNCHANGED <<vbd_position, vbd_format, vbd_league_size>>
    /\ UNCHANGED <<seatVars, anVars, clsVars, rankVars, rsVars, rfVars, fmVars, epVars, ndVars, vmVars, qVars, taVars, boardVars, recVars>>

\* The next request comes with another league size, same pool and format.
ChangeLeagueSize ==
    /\ Len(vbd_demand) < MaxVbdCalls
    /\ \E L \in 1..MaxLeagueSize :
          /\ L # vbd_league_size
          /\ vbd_league_size' = L
    /\ UNCHANGED <<vbd_position, vbd_format, vbd_demand>>
    /\ UNCHANGED <<seatVars, anVars, clsVars, rankVars, rsVars, rfVars, fmVars, epVars, ndVars, vmVars, qVars, taVars, boardVars, recVars>>

VbdNext == ComputeDemand \/ ChangeLeagueSize

SpecVBD == VbdInit /\ [][VbdNext]_vars

\* C5: for a fixed position, lineup format and pool, the replacement index
\* never decreases when leagueSize grows.
ReplacementIndexMonotone ==
    \A a, b \in DOMAIN vbd_demand :
        vbd_demand[a].league_size <= vbd_demand[b].league_size
            => vbd_demand[a].total_demand <= vbd_demand[b].total_demand

ReplacementIndexMonotoneWitness ==
    /\ Len(vbd_demand) = 2
    /\ vbd_position = "K" /\ vbd_format = "standard"
    /\ vbd_demand[1].league_size = 2 /\ vbd_demand[1].total_demand = 2
    /\ vbd_demand[2].league_size = 10 /\ vbd_demand[2].total_demand = 11

(***************************************************************************)
(* Rankings Repository and Player Identity Matcher.  Text is a sequence of *)
(* one-character strings, so that upper(), strip(), `in` and indexing are  *)
(* computed as Python computes them.                                       *)
(***************************************************************************)
MaxRows    == 3   \* rows of a ranking table
MaxDir     == 2   \* players of the directory
MaxDrafted == 2   \* ids of the exclusion list
MaxLimit   == 2   \* largest limit tried

LowerCase == <<"a", "b", "c", "d", "e", "f", "g", "h", "i", "j", "k", "l", "m",
               "n", "o", "p", "q", "r", "s", "t", "u", "v", "w", "x", "y", "z">>
UpperCase == <<"A", "B", "C", "D", "E", "F", "G", "H", "I", "J", "K", "L", "M",
               "N", "O", "P", "Q", "R", "S", "T", "U", "V", "W", "X", "Y", "Z">>

\* str.upper()
UpperChar(c) ==
    IF \E i \in DOMAIN LowerCase : LowerCase[i] = c
    THEN UpperCase[CHOOSE i \in DOMAIN LowerCase : LowerCase[i] = c]
    ELSE c
Upper(str) == [i \in 1..Len(str) |-> UpperChar(str[i])]

\* str.strip()
RECURSIVE LStrip(_)
LStrip(str) ==
    IF str # <<>> /\ Head(str) = " " THEN LStrip(Tail(str)) ELSE str
RECURSIVE RStrip(_)
RStrip(str) ==
    IF str # <<>> /\ str[Len(str)] = " "
    THEN RStrip(SubSeq(str, 1, Len(str) - 1)) ELSE str
Strip(str) == RStrip(LStrip(str))

\* sub in str
Contains(sub, str) ==
    \E i \in 0..(Len(str) - Len(sub)) : SubSeq(str, i + 1, i + Len(sub)) = sub

\* ---- the texts of the model ----
Brown == <<"B", "r", "o", "w", "n">>
Jones == <<"J", "o", "n", "e", "s">>
AJ    == <<"A", "J">>
Al    == <<"A", "l">>
Bo    == <<"B", "o">>
Name_A_J_Brown == <<"A", ".", "J", ".", " ">> \o Brown   \* "A.J. Brown"
Name_AJ_Brown  == AJ \o <<" ">> \o Brown                 \* "AJ Brown"
Name_Bo_Jones  == Bo \o <<" ">> \o Jones                 \* "Bo Jones"
Pos_WR == <<"W", "R">>
Pos_RB == <<"R", "B">>
Pos_wr == <<"w", "r">>

\* The names a ranking table may list, with the position of each.
RankingNames == {Name_A_J_Brown, Name_AJ_Brown, Name_Bo_Jones}
RankingPosition(name) == IF name = Name_Bo_Jones THEN Pos_RB ELSE Pos_WR

\* The players a directory may hold: two different players are both called
\* AJ Brown.
DirectoryPool ==
    { [id |-> "11", first_name |-> AJ, last_name |-> Brown],
      [id |-> "12", first_name |-> Al, last_name |-> Brown],
      [id |-> "13", first_name |-> Bo, last_name |-> Jones],
      [id |-> "14", first_name |-> AJ, last_name |-> Brown] }
PoolIds == {pl.id : pl \in DirectoryPool}

\* sequences without repetition over a set, up to a length
SeqsNoRep(S, n) ==
    UNION { { q \in [1..k -> S] : \A i, j \in 1..k : i # j => q[i] # q[j] } :
            k \in 0..n }

\* The headers a table may use for its rank column: 'Rank' is one of the
\* spellings get_available_players looks for, 'Overall Rank' is the header
\* the rankings files of this repository are written with.
RankHeaders == {"Rank", "Overall Rank"}
RankPatterns == {"ascending", "descending", "missing"}
\* rank of row i of n: in file order, in reverse, or in reverse with the
\* second row's rank missing (NaN)
RankAt(pattern, i, n) ==
    CASE pattern = "ascending"  -> <<i>>
      [] pattern = "descending" -> <<n + 1 - i>>
      [] pattern = "missing"    -> IF i = 2 THEN <<>> ELSE <<n + 1 - i>>

RankingTables ==
    { [columns |-> {"Name", "Position", h},
       rows |-> [i \in 1..Len(names) |->
                   ("Name" :> names[i] @@ "Position" :> RankingPosition(names[i])
                      @@ h :> RankAt(pat, i, Len(names)))]] :
      names \in SeqsNoRep(RankingNames, MaxRows), h \in RankHeaders,
      pat \in RankPatterns }

Directories == SeqsNoRep(DirectoryPool, MaxDir)

\* first of the candidate headers that the columns have: <<header>> or <<>>
RECURSIVE FirstColumn(_, _)
FirstColumn(candidates, columns) ==
    IF candidates = <<>> THEN <<>>
    ELSE IF Head(candidates) \in columns THEN <<Head(candidates)>>
    ELSE FirstColumn(Tail(candidates), columns)

position_columns == <<"Position", "Pos", "position">>
rank_columns     == <<"Rank", "Overall", "rank", "overall">>
name_columns     == <<"Player", "Name", "player", "name">>

_get_player_name(row) ==
    LET col == FirstColumn(name_columns, DOMAIN row)
    IN  IF col # <<>> THEN row[col[1]]
        ELSE <<"U", "n", "k", "n", "o", "w", "n", " ",
               "P", "l", "a", "y", "e", "r">>

_get_player_position(row) ==
    LET col == FirstColumn(position_columns \o <<"pos">>, DOMAIN row)
    IN  IF col # <<>> THEN row[col[1]]
        ELSE <<"U", "n", "k", "n", "o", "w", "n">>

\* first rank column of the row holding a number, else 999
DefaultRank == 999
RECURSIVE FirstRank(_, _)
FirstRank(candidates, row) ==
    IF candidates = <<>> THEN DefaultRank
    ELSE IF Head(candidates) \in DOMAIN row /\ row[Head(candidates)] # <<>>
         THEN row[Head(candidates)][1]
    ELSE FirstRank(Tail(candidates), row)
_get_player_rank(row) == FirstRank(rank_columns, row)

\* sleeper_players.get(player_id, {}): <<player_data>> or <<>>
DirectoryGet(directory, player_id) ==
    LET hits == {i \in DOMAIN directory : directory[i].id = player_id}
    IN  IF hits = {} THEN <<>> ELSE <<directory[CHOOSE i \in hits : TRUE]>>

\* f"{first_name} {last_name}".strip()
FullName(first_name, last_name) == Strip(first_name \o <<" ">> \o last_name)

\* the names added to drafted_names for one drafted id
NameVariants(directory, player_id) ==
    LET found == DirectoryGet(directory, player_id) IN
    IF found = <<>> THEN {}
    ELSE LET first_name == found[1].first_name
             last_name  == found[1].last_name
             name       == FullName(first_name, last_name)
         IN  IF name = <<>> THEN {}
             ELSE { Upper(name),
                    Upper(last_name \o <<",", " ">> \o first_name),
                    IF first_name # <<>>
                    THEN Upper(<<first_name[1], ".", " ">> \o last_name)
                    ELSE <<>> }

drafted_names(directory, drafted) ==
    UNION { NameVariants(directory, player_id) : player_id \in drafted }

is_drafted(row, names) ==
    LET player_name == Upper(_get_player_name(row))
    IN  \/ player_name \in names
        \/ \E drafted_name \in names :
              /\ Len(drafted_name) > 3
              /\ \/ Contains(drafted_name, player_name)
                 \/ Contains(player_name, drafted_name)

MinOf(S) == CHOOSE x \in S : \A y \in S : x <= y

\* The matcher whose fallback wants the whole first name inside the ranking
\* name instead of the first initial at its start.
_find_sleeper_match_whole_first_name(player_name, directory) ==
    IF player_name = <<>> \/ directory = <<>> THEN <<>>
    ELSE LET player_name_clean == Strip(Upper(player_name))
             exact == {i \in DOMAIN directory :
                         FullName(Upper(directory[i].first_name),
                                  Upper(directory[i].last_name))
                           = player_name_clean}
             partial == {i \in DOMAIN directory :
                           LET first_name == Upper(directory[i].first_name)
                               last_name  == Upper(directory[i].last_name)
                           IN  /\ last_name # <<>>
                               /\ Contains(last_name, player_name_clean)
                               /\ first_name # <<>>
                               /\ Contains(first_name, player_name_clean)}
         IN  IF exact # {} THEN <<directory[MinOf(exact)].id>>
             ELSE IF partial # {} THEN <<directory[MinOf(partial)].id>>
             ELSE <<>>

\* _find_sleeper_match: <<id of the matching player>> or <<>> for None.
\* Both loops return on the first hit in dictionary order.
_find_sleeper_match(player_name, directory) ==
    IF player_name = <<>> \/ directory = <<>> THEN <<>>
    ELSE LET player_name_clean == Strip(Upper(player_name))
             exact == {i \in DOMAIN directory :
                         FullName(Upper(directory[i].first_name),
                                  Upper(directory[i].last_name))
                           = player_name_clean}
             partial == {i \in DOMAIN directory :
                           LET first_name == Upper(directory[i].first_name)
                               last_name  == Upper(directory[i].last_name)
                           IN  /\ last_name # <<>>
                               /\ Contains(last_name, player_name_clean)
                               /\ first_name # <<>>
                               /\ Len(player_name_clean) > 0
                               /\ first_name[1] = player_name_clean[1]}
         IN  IF exact # {} THEN <<directory[MinOf(exact)].id>>
             ELSE IF partial # {} THEN <<directory[MinOf(partial)].id>>
             ELSE <<>>

\* rank a <= rank b in sort_values order: a missing rank (NaN) sorts last
RankLE(a, b) == b = <<>> \/ (a # <<>> /\ a[1] <= b[1])

Injective(p) == \A i, j \in DOMAIN p : i # j => p[i] # p[j]

\* df.sort_values(rank_col): every ordering of the rows by ascending rank;
\* the default sort is not stable, so rows of equal rank may come out in
\* any order.
SortValues(df, rank_col) ==
    { [i \in 1..Len(df) |-> df[p[i]]] :
        p \in { q \in [1..Len(df) -> 1..Len(df)] :
                  /\ Injective(q)
                  /\ \A i, j \in 1..Len(df) :
                        i < j => RankLE(df[q[i]][rank_col],
                                        df[q[j]][rank_col]) } }

\* df.head(n)
DfHead(df, n) ==
    IF n >= 0 THEN SubSeq(df, 1, Min2(n, Len(df)))
    ELSE SubSeq(df, 1, Max2(Len(df) + n, 0))

\* the dictionary built for one row of the result
PlayerInfo(row, directory) ==
    [name      |-> _get_player_name(row),
     position  |-> _get_player_position(row),
     rank      |-> _get_player_rank(row),
     player_id |-> _find_sleeper_match(_get_player_name(row), directory)]

\* rows left after the drafted-name filter
AfterDrafted(table, directory, drafted) ==
    IF drafted # {} /\ directory # <<>>
    THEN LET names == drafted_names(directory, drafted)
             Keep(row) == ~is_drafted(row, names)
         IN  IF names # {} THEN SelectSeq(table.rows, Keep) ELSE table.rows
    ELSE table.rows

\* rows left after the position filter
AfterPosition(df, columns, filter) ==
    IF filter # <<>>
    THEN LET position_col == FirstColumn(position_columns, columns)
             Keep(row) == Upper(row[position_col[1]]) = Upper(filter)
         IN  IF position_col # <<>> THEN SelectSeq(df, Keep) ELSE df
    ELSE df

\* get_available_players: the lists it may return
get_available_players(table, directory, drafted, filter, lim) ==
    LET df1 == AfterDrafted(table, directory, drafted)
        df2 == AfterPosition(df1, table.columns, filter)
        rank_col == FirstColumn(rank_columns, table.columns)
        sorted == IF rank_col # <<>> THEN SortValues(df2, rank_col[1])
                  ELSE {df2}
    IN  { [i \in 1..Len(DfHead(df3, lim)) |->
             PlayerInfo(DfHead(df3, lim)[i], directory)] : df3 \in sorted }

DraftedSets == {d \in SUBSET PoolIds : Cardinality(d) <= MaxDrafted}
PositionFilters == {<<>>, Pos_wr}

RankInit ==
    /\ \E t \in RankingTables : rankings_table = <<t>>
    /\ sleeper_players \in Directories
    /\ drafted_players = {} /\ position_filter = <<>> /\ limit = 0
    /\ rk_returned = <<>> /\ match_name = <<>> /\ match_result = <<>>
    /\ SeatIdle /\ AnIdle /\ ClsIdle /\ VbdIdle /\ RsIdle /\ RfIdle /\ FmIdle /\ EpIdle /\ NdIdle /\ VmIdle /\ QIdle /\ TaIdle /\ BdIdle /\ RecIdle

\* one request for the best available players
GetAvailablePlayers ==
    /\ rankings_table # <<>>
    /\ rk_returned = <<>>
    /\ \E d \in DraftedSets, f \in PositionFilters, l \in 0..MaxLimit :
          /\ drafted_players' = d
          /\ position_filter' = f
          /\ limit' = l
          /\ \E out \in get_available_players(rankings_table[1],
                                              sleeper_players, d, f, l) :
                rk_returned' = <<out>>
    /\ UNCHANGED <<rankings_table, sleeper_players, match_name, match_result>>
    /\ UNCHANGED <<seatVars, anVars, clsVars, vbdVars, rsVars, rfVars, fmVars, epVars, ndVars, vmVars, qVars, taVars, boardVars, recVars>>

RankNext == GetAvailablePlayers

SpecRank == RankInit /\ [][RankNext]_vars

\* the ranking names handed to the matcher
Name_Al_Brown == Al \o <<" ">> \o Brown
MatchNames == RankingNames \cup {Name_Al_Brown, <<>>}

MatchInit ==
    /\ sleeper_players \in Directories
    /\ match_name \in MatchNames
    /\ match_result = <<>>
    /\ rankings_table = <<>> /\ drafted_players = {} /\ position_filter = <<>>
    /\ limit = 0 /\ rk_returned = <<>>
    /\ SeatIdle /\ AnIdle /\ ClsIdle /\ VbdIdle /\ RsIdle /\ RfIdle /\ FmIdle /\ EpIdle /\ NdIdle /\ VmIdle /\ QIdle /\ TaIdle /\ BdIdle /\ RecIdle

FindSleeperMatch ==
    /\ match_result = <<>>
    /\ match_result' = <<_find_sleeper_match(match_name, sleeper_players)>>
    /\ UNCHANGED <<rankings_table, sleeper_players, drafted_players,
                   position_filter, limit, rk_returned, match_name>>
    /\ UNCHANGED <<seatVars, anVars, clsVars, vbdVars, rsVars, rfVars, fmVars, epVars, ndVars, vmVars, qVars, taVars, boardVars, recVars>>

MatchNext == FindSleeperMatch

SpecMatch == MatchInit /\ [][MatchNext]_vars

\* C3: no returned entry carries a canonical player id that is a member of
\* the exclusion set.
NoExcludedIdReturned ==
    rk_returned # <<>> =>
        \A i \in DOMAIN rk_returned[1] :
            rk_returned[1][i].player_id # <<>>
                => rk_returned[1][i].player_id[1] \notin drafted_players

\* overallRank and position of a row of the table, whatever its headers
OverallRank(row) == row[CHOOSE h \in RankHeaders : h \in DOMAIN row]
TableRowOf(name) ==
    rankings_table[1].rows[CHOOSE i \in DOMAIN rankings_table[1].rows :
                              rankings_table[1].rows[i]["Name"] = name]
\* the rows that are not excluded and pass the position filter
EligibleRows ==
    LET rows == rankings_table[1].rows
        names == IF drafted_players # {} /\ sleeper_players # <<>>
                 THEN drafted_names(sleeper_players, drafted_players) ELSE {}
    IN  { rows[i] : i \in { k \in DOMAIN rows :
             /\ ~(names # {} /\ is_drafted(rows[k], names))
             /\ position_filter # <<>> =>
                   Upper(rows[k]["Position"]) = Upper(position_filter) } }

\* C4: at most L entries come back, in non-decreasing overallRank order, and
\* they are the L best-ranked of the entries that are not excluded and match
\* the position filter.
BestRankedReturned ==
    rk_returned # <<>> =>
        LET out == rk_returned[1]
            outRows == {TableRowOf(out[i].name) : i \in DOMAIN out}
        IN  /\ Len(out) = Min2(limit, Cardinality(EligibleRows))
            /\ outRows \subseteq EligibleRows
            /\ \A i, j \in DOMAIN out :
                  i < j => RankLE(OverallRank(TableRowOf(out[i].name)),
                                  OverallRank(TableRowOf(out[j].name)))
            /\ \A r \in outRows, x \in EligibleRows \ outRows :
                  RankLE(OverallRank(r), OverallRank(x))

\* the directory players that satisfy each step of the matching rule
ExactCandidates ==
    { i \in DOMAIN sleeper_players :
        Strip(Upper(sleeper_players[i].first_name \o <<" ">>
                      \o sleeper_players[i].last_name))
          = Strip(Upper(match_name)) }
FallbackCandidates ==
    { i \in DOMAIN sleeper_players :
        /\ Contains(Upper(sleeper_players[i].last_name), Upper(match_name))
        /\ Upper(sleeper_players[i].first_name)[1] = Upper(match_name)[1] }

\* C9: when two or more directory players satisfy the matching rule (same
\* full name, or, failing any exact match, contained last name and equal
\* first initial) the matcher returns no match.
AmbiguousIsNoMatch ==
    (match_result # <<>> /\ match_name # <<>>) =>
        ((\/ Cardinality(ExactCandidates) >= 2
          \/ (ExactCandidates = {} /\ Cardinality(FallbackCandidates) >= 2))
            => match_result[1] = <<>>)

\* the directory holds exactly one player surnamed Brown, and it is AJ Brown
OnlyBrownIsAJ ==
    /\ Cardinality({i \in DOMAIN sleeper_players :
                      sleeper_players[i].last_name = Brown}) = 1
    /\ \E i \in DOMAIN sleeper_players :
          sleeper_players[i].last_name = Brown
            /\ sleeper_players[i].first_name = AJ
TheAJBrownId ==
    sleeper_players[CHOOSE i \in DOMAIN sleeper_players :
                      sleeper_players[i].last_name = Brown].id

\* C10: "A.J. Brown" against a directory whose only Brown is "AJ Brown" has
\* no exact full-name match and is resolved to that player's id by the
\* last-name-plus-initial fallback.
PunctuationResolvedByFallback ==
    (match_result # <<>> /\ match_name = Name_A_J_Brown /\ OnlyBrownIsAJ) =>
        /\ ExactCandidates = {}
        /\ FallbackCandidates # {}
        /\ match_result[1] = <<TheAJBrownId>>

PunctuationResolvedByFallbackWitness ==
    /\ match_name = Name_A_J_Brown
    /\ Len(sleeper_players) = 2
    /\ sleeper_players[1].id = "13" /\ sleeper_players[2].id = "11"
    /\ match_result = << <<"11">> >>

(***************************************************************************)
(* Unavailability Resolver and the upstream accessors of SleeperAPI.  A    *)
(* call carries a context: what the remote source holds, what the n-th     *)
(* request to each endpoint meets, the requests made so far and whether    *)
(* SleeperAPI._players_cache is filled.  A call either returns a value or  *)
(* raises an exception; both come with the context the call leaves.        *)
(***************************************************************************)
Returned(v, ctx) == [raised |-> FALSE, value |-> v, error |-> None, ctx |-> ctx]
Raised(e, ctx)   == [raised |-> TRUE, value |-> <<>>, error |-> e, ctx |-> ctx]

\* what a request can meet: a JSON body, a 404, or a timeout / connection
\* error / HTTP error
Outcomes == {"ok", "nothing", "fail"}

\* SleeperAPI._make_request: <<body>>, <<>> for None, or SleeperAPIError
_make_request(ctx, endpoint) ==
    LET n == Cardinality({i \in DOMAIN ctx.requests :
                             ctx.requests[i] = endpoint}) + 1
        met == ctx.outcomes[endpoint]
        outcome == met[Min2(n, Len(met))]
        after == [ctx EXCEPT !.requests = Append(@, endpoint)]
    IN  CASE outcome = "ok"      -> Returned(<<ctx.remote[endpoint]>>, after)
          [] outcome = "nothing" -> Returned(<<>>, after)
          [] outcome = "fail"    -> Raised("SleeperAPIError", after)

\* `result or []`
OrEmptyList(r) ==
    IF r.raised THEN r
    ELSE Returned(IF r.value = <<>> THEN <<>> ELSE r.value[1], r.ctx)

get_draft_info(ctx, draft_id) ==
    IF draft_id = "" THEN Raised("ValueError", ctx)
    ELSE _make_request(ctx, "draft")

get_draft_picks(ctx, draft_id) ==
    IF draft_id = "" THEN Raised("ValueError", ctx)
    ELSE OrEmptyList(_make_request(ctx, "picks"))

get_league_info(ctx, league_id) ==
    IF league_id = "" THEN Raised("ValueError", ctx)
    ELSE _make_request(ctx, "league")

get_league_rosters(ctx, league_id) ==
    IF league_id = "" THEN Raised("ValueError", ctx)
    ELSE OrEmptyList(_make_request(ctx, "rosters"))

get_all_players(ctx) ==
    IF ctx.cache THEN Returned(ctx.remote["players"], ctx)
    ELSE LET r == _make_request(ctx, "players") IN
         IF r.raised THEN r
         ELSE IF r.value = <<>> \/ DOMAIN r.value[1] = {}
              THEN Raised("SleeperAPIError", r.ctx)
         ELSE Returned(r.value[1], [r.ctx EXCEPT !.cache = TRUE])

\* the entry built for one pick that has a player
EnhancedPick(pick, players) ==
    [player_id   |-> pick.player_id,
     position    |-> Get(players, pick.player_id, "Unknown"),
     pick_number |-> pick.pick_no,
     round       |-> pick.round]

\* get_drafted_players_with_names from the directory call on
enhance_picks(picks, players) ==
    IF players.raised THEN Raised("SleeperAPIError", players.ctx)
    ELSE LET HasPlayer(pick) == pick.player_id # None
             with == SelectSeq(picks.value, HasPlayer)
         IN  Returned([i \in DOMAIN with |->
                          EnhancedPick(with[i], players.value)],
                      players.ctx)

\* get_drafted_players_with_names from the pick-list call on
name_drafted_picks(picks) ==
    IF picks.raised THEN Raised("SleeperAPIError", picks.ctx)
    ELSE enhance_picks(picks, get_all_players(picks.ctx))

\* any failure inside comes out as SleeperAPIError
get_drafted_players_with_names(ctx, draft_id) ==
    name_drafted_picks(get_draft_picks(ctx, draft_id))

\* the ids of one roster: its players, taxi and reserve lists; a list that
\* is missing, null or empty adds nothing
RosterLists == {"players", "taxi", "reserve"}
RosterIds(roster, lists) ==
    UNION { {roster[k][i] : i \in DOMAIN roster[k]} :
            k \in lists \cap DOMAIN roster }

\* The rostered ids without the reserve (IR) lists.
collect_rostered_no_reserve(rosters) ==
    IF rosters.raised THEN Returned({}, rosters.ctx)
    ELSE Returned(UNION { RosterIds(rosters.value[i], {"players", "taxi"}) :
                          i \in DOMAIN rosters.value },
                  rosters.ctx)

\* get_rostered_players from the roster call on: an exception is swallowed
\* and [] returned
collect_rostered(rosters) ==
    IF rosters.raised THEN Returned({}, rosters.ctx)
    ELSE Returned(UNION { RosterIds(rosters.value[i], RosterLists) :
                          i \in DOMAIN rosters.value },
                  rosters.ctx)

get_rostered_players(ctx, league_id) ==
    collect_rostered(get_league_rosters(ctx, league_id))

PlayerIdsOf(drafted) == {drafted[i].player_id : i \in DOMAIN drafted}

\* The handler of the outer except without its own try: a second failure
\* goes to the caller.
fallback_result_unguarded(drafted) ==
    IF drafted.raised THEN drafted
    ELSE Returned([ids |-> PlayerIdsOf(drafted.value), is_dynasty |-> FALSE],
                  drafted.ctx)

\* the handler of the outer except, from its own call of
\* get_drafted_players_with_names on: drafted players only, else ([], False)
fallback_result(drafted) ==
    IF drafted.raised
    THEN Returned([ids |-> {}, is_dynasty |-> FALSE], drafted.ctx)
    ELSE Returned([ids |-> PlayerIdsOf(drafted.value), is_dynasty |-> FALSE],
                  drafted.ctx)

fallback_drafted_only(ctx, draft_id) ==
    fallback_result(get_drafted_players_with_names(ctx, draft_id))

\* The try block of get_all_unavailable_players, last call first.  The list
\* it returns is built from a set, so it is kept as the set of its ids.
resolve_with_rostered(unavailable_players, rostered_players) ==
    Returned([ids |-> unavailable_players \cup rostered_players.value,
              is_dynasty |-> TRUE], rostered_players.ctx)

\* from the league-info call on
resolve_with_league_info(unavailable_players, league_id, info) ==
    IF info.raised THEN info
    ELSE IF info.value = <<>> \/ DOMAIN info.value[1] = {}
    THEN Returned([ids |-> unavailable_players, is_dynasty |-> FALSE],
                  info.ctx)
    ELSE IF inline_dynasty_detection(info.value[1])
    THEN resolve_with_rostered(unavailable_players,
                               get_rostered_players(info.ctx, league_id))
    ELSE Returned([ids |-> unavailable_players, is_dynasty |-> FALSE],
                  info.ctx)

\* from `if league_id:` on; league is <<league_id>> or <<>> for None
resolve_with_league_id(ctx, unavailable_players, league) ==
    IF league = <<>>
    THEN Returned([ids |-> unavailable_players, is_dynasty |-> FALSE], ctx)
    ELSE resolve_with_league_info(unavailable_players, league[1],
                                  get_league_info(ctx, league[1]))

\* draft_info.get('league_id') if draft_info else None
LeagueIdOf(fetched) ==
    IF fetched = <<>> THEN <<>>
    ELSE IF fetched[1].league_id = None THEN <<>>
    ELSE <<fetched[1].league_id>>

\* from the draft-info call on
resolve_with_draft_info(unavailable_players, fetched) ==
    IF fetched.raised THEN fetched
    ELSE resolve_with_league_id(fetched.ctx, unavailable_players,
                                LeagueIdOf(fetched.value))

\* from the call of get_drafted_players_with_names on
resolve_with_drafted(drafted, draft_id, league_id) ==
    IF drafted.raised THEN drafted
    ELSE IF league_id = <<>>
    THEN resolve_with_draft_info(PlayerIdsOf(drafted.value),
                                 get_draft_info(drafted.ctx, draft_id))
    ELSE resolve_with_league_id(drafted.ctx, PlayerIdsOf(drafted.value),
                                league_id)

resolve_try(ctx, draft_id, league_id) ==
    resolve_with_drafted(get_drafted_players_with_names(ctx, draft_id),
                         draft_id, league_id)

\* `except Exception`: the fallback runs where the try block stopped
resolve_except(tried, draft_id) ==
    IF tried.raised THEN fallback_drafted_only(tried.ctx, draft_id)
    ELSE tried

get_all_unavailable_players(ctx, draft_id, league_id) ==
    resolve_except(resolve_try(ctx, draft_id, league_id), draft_id)

\* ---- what the remote source holds ----
UpstreamPicks == PickList(3, 1, 0, 2, "null_player")
UpstreamRosters ==
    << [players |-> <<"p3", "p5">>, taxi |-> <<"p6">>, reserve |-> <<>>],
       ("players" :> <<>> @@ "reserve" :> <<"p4">>) >>
DraftInfos == { [league_id |-> None], [league_id |-> "L1"] }
ResolverLeagues ==
    { [x \in {} |-> 0],
      [k \in {"previous_league_id"} |-> "L1"],
      [settings |-> ("type" :> 2), previous_league_id |-> None],
      [settings |-> ("type" :> 0 @@ "taxi_slots" :> 1),
       previous_league_id |-> None],
      [settings |-> ("type" :> 0 @@ "max_keepers" :> 2 @@ "taxi_slots" :> 0),
       previous_league_id |-> "L1"],
      [settings |-> ("type" :> 0 @@ "max_keepers" :> 1 @@ "taxi_slots" :> 0),
       previous_league_id |-> "L1"] }

\* requests one call of the resolver can send to each endpoint
ResolverEndpoints == {"picks", "players", "draft", "league", "rosters"}
RequestsTo(endpoint) == IF endpoint \in {"picks", "players"} THEN 2 ELSE 1

\* every way the requests of one call can go
Upstreams ==
    [picks   : [1..RequestsTo("picks") -> Outcomes],
     players : [1..RequestsTo("players") -> Outcomes],
     draft   : [1..RequestsTo("draft") -> Outcomes],
     league  : [1..RequestsTo("league") -> Outcomes],
     rosters : [1..RequestsTo("rosters") -> Outcomes]]

Remote ==
    [picks |-> UpstreamPicks, players |-> all_players,
     draft |-> rs_draft_info[1], league |-> league_info[1],
     rosters |-> UpstreamRosters]

RsInit ==
    /\ rs_draft_id \in {"", "D1"}
    /\ rs_league_id \in {<<>>, <<"L1">>}
    /\ rs_upstream = <<>>
    /\ \E d \in DraftInfos : rs_draft_info = <<d>>
    /\ \E info \in ResolverLeagues : league_info = <<info>>
    /\ rs_players_cache \in BOOLEAN
    /\ rs_result = <<>>
    /\ cls_standalone = <<>> /\ cls_inline = <<>>
    /\ SeatIdle /\ AnIdle /\ RankIdle /\ VbdIdle /\ RfIdle /\ FmIdle /\ EpIdle /\ NdIdle /\ VmIdle /\ QIdle /\ TaIdle /\ BdIdle /\ RecIdle

\* the caller receives the outcome; the directory fetched stays cached
ResolveReturns(met, out) ==
    /\ rs_upstream' = met
    /\ rs_result' = <<[raised |-> out.raised, value |-> out.value,
                       error |-> out.error, requests |-> out.ctx.requests]>>
    /\ rs_players_cache' = out.ctx.cache

\* one call of get_all_unavailable_players(draft_id, league_id); what its
\* requests meet is up to the remote source
Resolve ==
    /\ rs_result = <<>>
    /\ \E met \in Upstreams :
          ResolveReturns(met,
              get_all_unavailable_players(
                  [remote |-> Remote, outcomes |-> met,
                   requests |-> <<>>, cache |-> rs_players_cache],
                  rs_draft_id, rs_league_id))
    /\ UNCHANGED <<rs_draft_id, rs_league_id, rs_draft_info>>
    /\ UNCHANGED <<seatVars, anVars, clsVars, rankVars, vbdVars, rfVars, fmVars, epVars, ndVars, vmVars, qVars, taVars, boardVars, recVars>>

RsNext == Resolve

SpecResolve == RsInit /\ [][RsNext]_vars

\* what the i-th request of the call met
RequestMet(i) ==
    LET reqs == rs_result[1].requests
        n == Cardinality({k \in 1..i : reqs[k] = reqs[i]})
        met == rs_upstream[reqs[i]]
    IN  met[Min2(n, Len(met))]

\* the non-null player ids of the draft's picks
DraftedPickIds ==
    {UpstreamPicks[i].player_id : i \in DOMAIN UpstreamPicks} \ {None}

\* every id in any list of any roster of the league
AllRosteredIds ==
    UNION { UNION { {UpstreamRosters[r][k][i] :
                       i \in DOMAIN UpstreamRosters[r][k]} :
                    k \in DOMAIN UpstreamRosters[r] } :
            r \in DOMAIN UpstreamRosters }

\* C11: whatever each fetch meets (a body, nothing, a failure), resolve
\* returns a (set of ids, boolean) value and raises nothing to its caller.
ResolveNeverRaises ==
    rs_result # <<>> =>
        /\ ~rs_result[1].raised
        /\ rs_result[1].value.ids \subseteq DraftedPickIds \cup AllRosteredIds
        /\ rs_result[1].value.is_dynasty \in BOOLEAN

ResolveNeverRaisesWitness ==
    /\ rs_result # <<>>
    /\ rs_draft_id = "D1"
    /\ rs_result[1].requests = <<"picks", "players", "picks", "players">>
    /\ \A i \in 1..2 : rs_upstream["players"][i] = "fail"
    /\ ~rs_result[1].raised
    /\ rs_result[1].value = [ids |-> {}, is_dynasty |-> FALSE]

\* every request for the pick list was answered with the list
PicksFetched ==
    /\ \E i \in DOMAIN rs_result[1].requests :
          rs_result[1].requests[i] = "picks"
    /\ \A i \in DOMAIN rs_result[1].requests :
          rs_result[1].requests[i] = "picks" => RequestMet(i) = "ok"
\* some other request of the call failed
OtherFetchFailed ==
    \E i \in DOMAIN rs_result[1].requests :
        rs_result[1].requests[i] # "picks" /\ RequestMet(i) = "fail"

\* C12: when the pick list is fetched but another fetch of the call fails
\* (directory, draft info, league info, rosters), resolve returns exactly
\* the non-null player ids of the picks, with isDynastyOrKeeper = false.
DegradesToDraftedOnly ==
    (rs_result # <<>> /\ PicksFetched /\ OtherFetchFailed) =>
        /\ ~rs_result[1].raised
        /\ rs_result[1].value = [ids |-> DraftedPickIds, is_dynasty |-> FALSE]

\* every request of the call was answered with a body
EveryFetchSucceeded ==
    /\ rs_result[1].requests # <<>>
    /\ \A i \in DOMAIN rs_result[1].requests : RequestMet(i) = "ok"
\* a league id is supplied, or the draft names its league
LeagueIdKnown == rs_league_id # <<>> \/ rs_draft_info[1].league_id # None
\* the league configuration carries a dynasty / keeper signal
CfgDynasty == ~CfgTypeNot2 \/ CfgTaxi > 0 \/ CfgKeepers > 1

\* C13: when every fetch succeeds, resolve returns the non-null player ids
\* of the picks, joined exactly when the league is dynasty/keeper by every
\* id of the players, taxi and reserve lists of every roster; without a
\* league id, or for a redraft league, it returns the drafted ids and false.
ResolveUnion ==
    (rs_result # <<>> /\ EveryFetchSucceeded) =>
        LET classified == LeagueIdKnown /\ CfgDynasty IN
        /\ ~rs_result[1].raised
        /\ rs_result[1].value.is_dynasty = classified
        /\ rs_result[1].value.ids =
              DraftedPickIds \cup (IF classified THEN AllRosteredIds ELSE {})

ResolveUnionWitness ==
    /\ rs_result # <<>>
    /\ EveryFetchSucceeded
    /\ rs_league_id = <<>>
    /\ rs_result[1].requests = <<"picks", "players", "draft", "league",
                                 "rosters">>
    /\ CfgTaxi = 1
    /\ rs_result[1].value =
          [ids |-> {"p1", "p3", "p4", "p5", "p6"}, is_dynasty |-> TRUE]

\* C16 (resolve): called with an empty draft id, resolve is rejected with a
\* validation error before any request is made, and returns no defaulted
\* result.
EmptyDraftIdRejected ==
    (rs_result # <<>> /\ rs_draft_id = "") =>
        /\ rs_result[1].raised
        /\ rs_result[1].error = "ValueError"
        /\ rs_result[1].requests = <<>>

(***************************************************************************)
(* Rankings refresh.  One thread refreshes the tables of the rankings      *)
(* manager while request threads read them; nothing in the manager locks   *)
(* the dictionary.  A table is named by where its rows came from.          *)
(***************************************************************************)
RankingFiles == {"FantasyPros_Rankings_ppr_standard.csv",
                 "FantasyPros_Rankings_ppr_superflex.csv"}

\* the dictionaries with keys among `keys` and values among `values`
Dicts(keys, values) == UNION { [K -> values] : K \in SUBSET keys }

\* dict[key] = value, on the dictionary itself
DictSet(dict, key, value) ==
    [k \in DOMAIN dict \cup {key} |-> IF k = key THEN value ELSE dict[k]]

\* os.listdir: the files of a directory in some order
ListDir(dir) ==
    { [i \in DOMAIN q |-> [dir |-> dir, name |-> q[i]]] :
        q \in { o \in SeqsNoRep(DOMAIN rf_disk[dir],
                                Cardinality(DOMAIN rf_disk[dir])) :
                  Len(o) = Cardinality(DOMAIN rf_disk[dir]) } }

RECURSIVE WriteFiles(_, _, _)
\* _save_fantasy_pros_to_disk: one file per table that has rows
WriteFiles(dir, tables, names) ==
    IF names = {} THEN dir
    ELSE LET name == CHOOSE n \in names : TRUE
         IN  WriteFiles(IF tables[name] # "no_rows"
                        THEN DictSet(dir, name, tables[name]) ELSE dir,
                        tables, names \ {name})

RfInit ==
    /\ rf_cache \in Dicts(RankingFiles, {"old_rows"})
    /\ rf_disk \in [rankings : Dicts(RankingFiles, {"disk_rows", "no_rows"}),
                    parent   : Dicts(RankingFiles, {"parent_rows"})]
    /\ rf_last_scrape_time \in BOOLEAN
    /\ rf_pc = "idle"
    /\ rf_todo = <<>> /\ rf_before = <<>> /\ rf_reads = {}
    /\ SeatIdle /\ AnIdle /\ ClsIdle /\ RankIdle /\ VbdIdle /\ RsIdle /\ FmIdle /\ EpIdle /\ NdIdle /\ VmIdle /\ QIdle /\ TaIdle /\ BdIdle /\ RecIdle

\* the cache is stale (_get_fantasy_pros_rankings) or a refresh is forced
\* (force_refresh_fantasy_pros, which clears the scrape time first)
StartRefresh ==
    /\ rf_pc = "idle"
    /\ rf_pc' = "scraping"
    /\ rf_before' = <<rf_cache>>
    /\ rf_last_scrape_time' \in {FALSE, rf_last_scrape_time}
    /\ UNCHANGED <<rf_cache, rf_disk, rf_todo, rf_reads>>
    /\ UNCHANGED <<seatVars, anVars, clsVars, rankVars, vbdVars, rsVars, fmVars, epVars, ndVars, vmVars, qVars, taVars, boardVars, recVars>>

\* the scrape returned at least one table: the dictionary is replaced and
\* written to disk
ScrapeSucceeds ==
    /\ rf_pc = "scraping"
    /\ \E scraped_data \in Dicts(RankingFiles, {"scraped_rows"}) \ {<<>>} :
          /\ rf_cache' = scraped_data
          /\ rf_disk' = [rf_disk EXCEPT !.rankings =
                            WriteFiles(@, scraped_data, DOMAIN scraped_data)]
    /\ rf_last_scrape_time' = TRUE
    /\ rf_pc' = "done"
    /\ UNCHANGED <<rf_todo, rf_before, rf_reads>>
    /\ UNCHANGED <<seatVars, anVars, clsVars, rankVars, vbdVars, rsVars, fmVars, epVars, ndVars, vmVars, qVars, taVars, boardVars, recVars>>

\* the scrape returned nothing or raised: _load_fantasy_pros_from_disk
\* lists the rankings directory, then its parent
ScrapeFails ==
    /\ rf_pc = "scraping"
    /\ \E first \in ListDir("rankings"), second \in ListDir("parent") :
          rf_todo' = first \o second
    /\ rf_pc' = "loading"
    /\ UNCHANGED <<rf_cache, rf_disk, rf_last_scrape_time, rf_before, rf_reads>>
    /\ UNCHANGED <<seatVars, anVars, clsVars, rankVars, vbdVars, rsVars, fmVars, epVars, ndVars, vmVars, qVars, taVars, boardVars, recVars>>

\* _load_fantasy_pros_csv: one file is read and, if it has rows, stored
\* under its name in the dictionary
LoadFile ==
    /\ rf_pc = "loading" /\ rf_todo # <<>>
    /\ LET file == Head(rf_todo)
           data == rf_disk[file.dir][file.name]
       IN  rf_cache' = IF data # "no_rows"
                       THEN DictSet(rf_cache, file.name, data)
                       ELSE rf_cache
    /\ rf_todo' = Tail(rf_todo)
    /\ UNCHANGED <<rf_disk, rf_last_scrape_time, rf_pc, rf_before, rf_reads>>
    /\ UNCHANGED <<seatVars, anVars, clsVars, rankVars, vbdVars, rsVars, fmVars, epVars, ndVars, vmVars, qVars, taVars, boardVars, recVars>>

\* the end of _load_fantasy_pros_from_disk
FinishLoad ==
    /\ rf_pc = "loading" /\ rf_todo = <<>>
    /\ rf_last_scrape_time' = IF rf_cache # <<>> THEN TRUE
                              ELSE rf_last_scrape_time
    /\ rf_pc' = "done"
    /\ UNCHANGED <<rf_cache, rf_disk, rf_todo, rf_before, rf_reads>>
    /\ UNCHANGED <<seatVars, anVars, clsVars, rankVars, vbdVars, rsVars, fmVars, epVars, ndVars, vmVars, qVars, taVars, boardVars, recVars>>

\* a request thread reads the loaded tables (get_stats)
ReadTables ==
    /\ rf_cache \notin rf_reads
    /\ rf_reads' = rf_reads \cup {rf_cache}
    /\ UNCHANGED <<rf_cache, rf_disk, rf_last_scrape_time, rf_pc, rf_todo,
                   rf_before>>
    /\ UNCHANGED <<seatVars, anVars, clsVars, rankVars, vbdVars, rsVars, fmVars, epVars, ndVars, vmVars, qVars, taVars, boardVars, recVars>>

RfNext == \/ StartRefresh \/ ScrapeSucceeds \/ ScrapeFails
          \/ LoadFile \/ FinishLoad \/ ReadTables

SpecRefresh == RfInit /\ [][RfNext]_vars

\* C14: every read made while a refresh (its reload from disk included)
\* runs sees either all the tables held before the refresh or all the
\* tables held after it, never some tables replaced and others not.
RefreshIsAtomic ==
    rf_pc = "done" =>
        \A seen \in rf_reads : seen = rf_before[1] \/ seen = rf_cache

(***************************************************************************)
(* League Classifier: format detection, and the order of the league JSON.  *)
(* The league arrives as JSON: its settings object is a list of            *)
(* (key, value) members in some order, its roster_positions a list.  A key *)
(* of the league that JSON gives as null, or leaves out, is told by        *)
(* `shape`; in the dictionary a value that can be null is <<>> for None    *)
(* and <<value>> otherwise.                                                *)
(***************************************************************************)
MaxSlots == 3   \* longest roster_positions list

\* the dictionary json.loads builds from the members of an object
DictOf(members) ==
    [k \in {members[i][1] : i \in DOMAIN members} |->
        members[CHOOSE i \in DOMAIN members : members[i][1] = k][2]]

\* the league_info dictionary of a league JSON
LeagueInfoOf(json) ==
    IF json.shape.league = "null" THEN <<>>
    ELSE [k \in {"settings", "previous_league_id"}
                \cup {c \in {"scoring_settings", "roster_positions"} :
                         json.shape[c] # "absent"} |->
            CASE k = "settings" -> DictOf(json.settings)
              [] k = "previous_league_id" -> json.previous_league_id
              [] k = "scoring_settings" ->
                    IF json.shape[k] = "null" THEN <<>>
                    ELSE <<DictOf(json.scoring_settings)>>
              [] k = "roster_positions" ->
                    IF json.shape[k] = "null" THEN <<>>
                    ELSE <<json.roster_positions>>]

\* The format detection that looks for the superflex slot in the first
\* roster position only.
detect_league_format_first_slot(info) ==
    IF DOMAIN info = {} THEN <<"half_ppr", "superflex">>
    ELSE LET got_scoring == Get(info, "scoring_settings", << <<>> >>)
             got_positions == Get(info, "roster_positions", << <<>> >>)
         IN  IF got_scoring = <<>> \/ got_positions = <<>>
             THEN <<"half_ppr", "superflex">>
             ELSE LET scoring_settings == got_scoring[1]
                      rec_points_x10 == Get(scoring_settings, "rec", 0)
                      scoring_format ==
                          IF rec_points_x10 = 0 THEN "standard"
                          ELSE IF rec_points_x10 = 5 THEN "half_ppr"
                          ELSE IF rec_points_x10 = 10 THEN "ppr"
                          ELSE "half_ppr"
                      roster_positions == got_positions[1]
                      qb_count ==
                          Cardinality({i \in DOMAIN roster_positions :
                                         roster_positions[i] = "QB"})
                      has_superflex == /\ roster_positions # <<>>
                                       /\ roster_positions[1] = "SUPER_FLEX"
                  IN  <<scoring_format,
                        IF qb_count > 1 \/ has_superflex THEN "superflex"
                        ELSE "standard">>

\* detect_league_format: (scoring_format, league_type); rec is kept in
\* tenths of a point.  None in place of the scoring settings or of the
\* roster positions raises inside the try block, and the handler returns
\* the default.
detect_league_format(info) ==
    IF DOMAIN info = {} THEN <<"half_ppr", "superflex">>
    ELSE LET got_scoring == Get(info, "scoring_settings", << <<>> >>)
             got_positions == Get(info, "roster_positions", << <<>> >>)
         IN  IF got_scoring = <<>> \/ got_positions = <<>>
             THEN <<"half_ppr", "superflex">>
             ELSE LET scoring_settings == got_scoring[1]
                      rec_points_x10 == Get(scoring_settings, "rec", 0)
                      scoring_format ==
                          IF rec_points_x10 = 0 THEN "standard"
                          ELSE IF rec_points_x10 = 5 THEN "half_ppr"
                          ELSE IF rec_points_x10 = 10 THEN "ppr"
                          ELSE "half_ppr"
                      roster_positions == got_positions[1]
                      qb_count ==
                          Cardinality({i \in DOMAIN roster_positions :
                                         roster_positions[i] = "QB"})
                      has_superflex == \E i \in DOMAIN roster_positions :
                                           roster_positions[i] = "SUPER_FLEX"
                  IN  <<scoring_format,
                        IF qb_count > 1 \/ has_superflex THEN "superflex"
                        ELSE "standard">>

\* ---- the league JSONs of the model ----
FmSettingValues(key) ==
    CASE key = "type"        -> {0, 2}
      [] key = "max_keepers" -> {1, 2}
      [] key = "taxi_slots"  -> {0, 1}
\* settings objects, their keys in alphabetical order
SettingsMembers ==
    { members \in UNION { [1..n -> UNION { {<<k, v>> : v \in FmSettingValues(k)} :
                                   k \in {"type", "max_keepers", "taxi_slots"} }] :
                          n \in 0..3 } :
        \A i, j \in DOMAIN members :
            i < j => members[i][1] \in {"max_keepers"} \cup
                       (IF members[j][1] = "type" THEN {"taxi_slots"} ELSE {})
                     /\ members[i][1] # members[j][1] }
SlotNames == {"QB", "RB", "SUPER_FLEX"}
SlotRank(slot) == CASE slot = "QB" -> 1 [] slot = "RB" -> 2
                    [] slot = "SUPER_FLEX" -> 3
\* roster position lists, quarterbacks first and superflex slots last
RosterPositionLists ==
    { rp \in UNION { [1..n -> SlotNames] : n \in 0..MaxSlots } :
        \A i, j \in DOMAIN rp : i < j => SlotRank(rp[i]) <= SlotRank(rp[j]) }
ScoringMembers == { <<>>, << <<"rec", 0>> >>, << <<"rec", 5>> >>,
                    << <<"rec", 10>> >>, << <<"rec", 8>> >> }
\* which of the league, its scoring_settings and its roster_positions are
\* there, null or left out
Shapes ==
    [league : {"value"}, scoring_settings : {"value", "null", "absent"},
     roster_positions : {"value", "null", "absent"}]
    \cup {[league |-> "null", scoring_settings |-> "absent",
            roster_positions |-> "absent"]}
LeagueJsons ==
    { json \in [shape : Shapes,
                settings : SettingsMembers,
                previous_league_id : {None, "L1"},
                scoring_settings : ScoringMembers,
                roster_positions : RosterPositionLists] :
        /\ json.shape.scoring_settings # "value"
              => json.scoring_settings = <<>>
        /\ json.shape.roster_positions # "value"
              => json.roster_positions = <<>>
        /\ json.shape.league = "null"
              => json.settings = <<>> /\ json.previous_league_id = None }

\* the list p in the order f
Permuted(p, f) == [i \in DOMAIN p |-> p[f[i]]]
PermutationsOf(n) == { f \in [1..n -> 1..n] : Injective(f) }

FmInit ==
    /\ \E json \in LeagueJsons : fm_league = <<json>>
    /\ fm_detected = <<>>
    /\ SeatIdle /\ AnIdle /\ ClsIdle /\ RankIdle /\ VbdIdle /\ RsIdle /\ RfIdle /\ EpIdle /\ NdIdle /\ VmIdle /\ QIdle /\ TaIdle /\ BdIdle /\ RecIdle

\* the league is classified and its format detected
DetectFormat ==
    /\ \A i \in DOMAIN fm_detected : fm_detected[i].json # fm_league[1]
    /\ fm_detected' = Append(fm_detected,
           [json       |-> fm_league[1],
            is_dynasty |-> is_dynasty_or_keeper_league(
                               LeagueInfoOf(fm_league[1])),
            format     |-> detect_league_format(LeagueInfoOf(fm_league[1]))])
    /\ UNCHANGED fm_league
    /\ UNCHANGED <<seatVars, anVars, clsVars, rankVars, vbdVars, rsVars, rfVars, epVars, ndVars, vmVars, qVars, taVars, boardVars, recVars>>

\* the same league arrives with its settings keys and roster positions in
\* another order
ReorderLeague ==
    /\ Len(fm_detected) = 1
    /\ fm_detected[1].json = fm_league[1]
    /\ \E f \in PermutationsOf(Len(fm_league[1].settings)),
          g \in PermutationsOf(Len(fm_league[1].roster_positions)) :
          fm_league' = <<[fm_league[1] EXCEPT
                 !.settings = Permuted(@, f),
                 !.roster_positions = Permuted(@, g)]>>
    /\ fm_league' # fm_league
    /\ UNCHANGED fm_detected
    /\ UNCHANGED <<seatVars, anVars, clsVars, rankVars, vbdVars, rsVars, rfVars, epVars, ndVars, vmVars, qVars, taVars, boardVars, recVars>>

FmNext == DetectFormat \/ ReorderLeague

SpecFormat == FmInit /\ [][FmNext]_vars

\* two league JSONs hold the same values: the same settings members, the
\* same roster positions as often, the same scoring and previous league
SameSlotCounts(p, q) ==
    \A slot \in SlotNames :
        Cardinality({i \in DOMAIN p : p[i] = slot})
          = Cardinality({i \in DOMAIN q : q[i] = slot})
SameValues(a, b) ==
    /\ {a.settings[i] : i \in DOMAIN a.settings}
         = {b.settings[i] : i \in DOMAIN b.settings}
    /\ SameSlotCounts(a.roster_positions, b.roster_positions)
    /\ a.scoring_settings = b.scoring_settings
    /\ a.shape = b.shape
    /\ a.previous_league_id = b.previous_league_id

\* C15: two league configurations with the same values, whatever the order
\* of the roster-position list and of the settings keys, get the same
\* dynasty/keeper classification and the same detected format.
ClassificationOrderInvariant ==
    \A m, n \in DOMAIN fm_detected :
        SameValues(fm_detected[m].json, fm_detected[n].json) =>
            /\ fm_detected[m].is_dynasty = fm_detected[n].is_dynasty
            /\ fm_detected[m].format = fm_detected[n].format

ClassificationOrderInvariantWitness ==
    /\ Len(fm_detected) = 2
    /\ fm_detected[1].json.roster_positions = <<"QB", "RB", "SUPER_FLEX">>
    /\ fm_detected[2].json.roster_positions = <<"SUPER_FLEX", "RB", "QB">>
    /\ fm_detected[1].json.settings
         = << <<"max_keepers", 1>>, <<"taxi_slots", 1>>, <<"type", 0>> >>
    /\ fm_detected[2].json.settings
         = << <<"type", 0>>, <<"max_keepers", 1>>, <<"taxi_slots", 1>> >>
    /\ fm_detected[2].is_dynasty
    /\ fm_detected[2].format = <<"ppr", "superflex">>

(***************************************************************************)
(* Analytical endpoints: picks, updates and available players of a draft.  *)
(* An endpoint that cannot finish a sub-computation substitutes a cheaper  *)
(* result.  A response is kept as its HTTP code, the keys of its JSON body *)
(* and the substitutions made on the way.                                  *)
(***************************************************************************)
Response(code, fields, substituted, ctx) ==
    [code |-> code, fields |-> fields, substituted |-> substituted,
     requests |-> ctx.requests, cache |-> ctx.cache]

\* the handlers `except ValueError` (400) and `except SleeperAPIError` (500)
ErrorResponse(r) ==
    Response(IF r.error = "ValueError" THEN 400 ELSE 500, {"error", "code"},
             {}, r.ctx)
NotFound(ctx) == Response(404, {"error", "code"}, {}, ctx)

\* ---- GET /draft/<draft_id>/picks ----
PicksFields == {"draft_id", "picks", "raw_picks", "total_picks",
                "draft_status", "status"}
\* the inner except, from its call of get_draft_picks on
draft_picks_fallback(raw_picks) ==
    IF raw_picks.raised THEN ErrorResponse(raw_picks)
    ELSE Response(200, PicksFields \cup {"fallback_mode"}, {"raw_picks"},
                  raw_picks.ctx)

\* the inner try, from its call of get_draft_picks on
draft_picks_with_raw(raw_picks, draft_id) ==
    IF raw_picks.raised
    THEN draft_picks_fallback(get_draft_picks(raw_picks.ctx, draft_id))
    ELSE Response(200, PicksFields, {}, raw_picks.ctx)

\* the inner try, from the call of get_drafted_players_with_names on
draft_picks_with_drafted(drafted, draft_id) ==
    IF drafted.raised
    THEN draft_picks_fallback(get_draft_picks(drafted.ctx, draft_id))
    ELSE draft_picks_with_raw(get_draft_picks(drafted.ctx, draft_id),
                              draft_id)

draft_picks_with_info(fetched, draft_id) ==
    IF fetched.raised THEN ErrorResponse(fetched)
    ELSE IF fetched.value = <<>> THEN NotFound(fetched.ctx)
    ELSE draft_picks_with_drafted(
             get_drafted_players_with_names(fetched.ctx, draft_id), draft_id)

api_get_draft_picks(ctx, draft_id) ==
    draft_picks_with_info(get_draft_info(ctx, draft_id), draft_id)

\* ---- GET /draft/<draft_id>/updates ----
UpdatesFields == {"draft_id", "picks", "last_update", "total_picks",
                  "draft_status", "current_pick", "status", "timestamp"}
\* the fallback to raw picks, from its call of get_draft_picks on
draft_updates_fallback(raw_picks) ==
    IF raw_picks.raised
    THEN Response(500, {"error", "code"}, {}, raw_picks.ctx)
    ELSE Response(200, UpdatesFields, {"raw_picks"}, raw_picks.ctx)

draft_updates_with_drafted(drafted, draft_id) ==
    IF drafted.raised
    THEN draft_updates_fallback(get_draft_picks(drafted.ctx, draft_id))
    ELSE Response(200, UpdatesFields, {}, drafted.ctx)

draft_updates_with_info(fetched, draft_id) ==
    IF fetched.raised THEN ErrorResponse(fetched)
    ELSE IF fetched.value = <<>> THEN NotFound(fetched.ctx)
    ELSE draft_updates_with_drafted(
             get_drafted_players_with_names(fetched.ctx, draft_id), draft_id)

api_get_draft_updates(ctx, draft_id) ==
    draft_updates_with_info(get_draft_info(ctx, draft_id), draft_id)

\* ---- GET /draft/<draft_id>/available-players ----
AvailableFields == {"draft_id", "league_format", "is_dynasty_league",
                    "total_unavailable", "available_players", "filters",
                    "total_results", "status"}
\* from the call of the rankings manager on; when it raises,
\* _get_fallback_available_players lists the player directory instead
available_with_rankings(ctx, rankings, substituted) ==
    IF rankings = "raises"
    THEN Response(200, AvailableFields, substituted \cup {"basic_players"},
                  get_all_players(ctx).ctx)
    ELSE Response(200, AvailableFields, substituted, ctx)

\* the except of the endpoint around the resolver: drafted ids of the raw
\* picks
available_fallback(draft_picks_got, rankings) ==
    IF draft_picks_got.raised THEN ErrorResponse(draft_picks_got)
    ELSE available_with_rankings(draft_picks_got.ctx, rankings,
                                 {"drafted_only"})

\* from the return of get_all_unavailable_players on
available_with_unavailable(resolved, substituted, draft_id, rankings) ==
    IF resolved.raised
    THEN available_fallback(get_draft_picks(resolved.ctx, draft_id),
                            rankings)
    ELSE available_with_rankings(resolved.ctx, rankings, substituted)

\* the call of get_all_unavailable_players, from the end of its try block
\* on; when that block raised, the resolver itself substitutes the drafted
\* players only
available_with_tried(tried, draft_id, rankings) ==
    available_with_unavailable(resolve_except(tried, draft_id),
                               IF tried.raised THEN {"drafted_only"} ELSE {},
                               draft_id, rankings)

\* from `league_id = draft_info.get('league_id')` on: the league is fetched
\* for its format (a SleeperAPIError is passed over), then the resolver runs
available_with_league_id(ctx, league, draft_id, rankings) ==
    IF league = <<>>
    THEN available_with_tried(resolve_try(ctx, draft_id, league),
                              draft_id, rankings)
    ELSE available_with_tried(
             resolve_try(get_league_info(ctx, league[1]).ctx, draft_id,
                         league),
             draft_id, rankings)

available_with_info(fetched, draft_id, rankings) ==
    IF fetched.raised THEN ErrorResponse(fetched)
    ELSE IF fetched.value = <<>> THEN NotFound(fetched.ctx)
    ELSE available_with_league_id(fetched.ctx, LeagueIdOf(fetched.value),
                                  draft_id, rankings)

api_get_available_players(ctx, draft_id, rankings) ==
    available_with_info(get_draft_info(ctx, draft_id), draft_id, rankings)

\* ---- the served draft ----
EpLeague == [settings |-> ("type" :> 2), previous_league_id |-> None]
EpRemote ==
    [picks |-> UpstreamPicks, players |-> all_players,
     draft |-> ep_draft_info[1], league |-> EpLeague,
     rosters |-> UpstreamRosters]
EpContext(met) ==
    [remote |-> EpRemote, outcomes |-> met, requests |-> <<>>,
     cache |-> ep_players_cache]

EpInit ==
    /\ \E d \in DraftInfos : ep_draft_info = <<d>>
    /\ ep_players_cache \in BOOLEAN
    /\ ep_rankings \in {"ok", "raises"}
    /\ ep_upstream = <<>>
    /\ ep_response = <<>>
    /\ SeatIdle /\ AnIdle /\ ClsIdle /\ RankIdle /\ VbdIdle /\ RsIdle /\ RfIdle /\ FmIdle /\ NdIdle /\ VmIdle /\ QIdle /\ TaIdle /\ BdIdle /\ RecIdle

\* the client receives the response; the directory fetched stays cached
Responds(met, response) ==
    /\ ep_upstream' = met
    /\ ep_response' = <<response>>
    /\ ep_players_cache' = response.cache
    /\ UNCHANGED <<ep_draft_info, ep_rankings>>

ServeDraftPicks ==
    /\ ep_response = <<>>
    /\ \E met \in Upstreams :
          Responds(met, api_get_draft_picks(EpContext(met), "D1"))
    /\ UNCHANGED <<seatVars, anVars, clsVars, rankVars, vbdVars, rsVars, rfVars, fmVars, ndVars, vmVars, qVars, taVars, boardVars, recVars>>

ServeDraftUpdates ==
    /\ ep_response = <<>>
    /\ \E met \in Upstreams :
          Responds(met, api_get_draft_updates(EpContext(met), "D1"))
    /\ UNCHANGED <<seatVars, anVars, clsVars, rankVars, vbdVars, rsVars, rfVars, fmVars, ndVars, vmVars, qVars, taVars, boardVars, recVars>>

ServeAvailablePlayers ==
    /\ ep_response = <<>>
    /\ \E met \in Upstreams :
          Responds(met, api_get_available_players(EpContext(met), "D1",
                                                  ep_rankings))
    /\ UNCHANGED <<seatVars, anVars, clsVars, rankVars, vbdVars, rsVars, rfVars, fmVars, ndVars, vmVars, qVars, taVars, boardVars, recVars>>

EpNext == ServeDraftPicks \/ ServeDraftUpdates \/ ServeAvailablePlayers

SpecEndpoints == EpInit /\ [][EpNext]_vars

\* C17: a successful response of an analytical endpoint that substituted a
\* degraded result (raw picks for enhanced picks, the basic player list for
\* the rankings, drafted-only for the unavailable players) carries the
\* degraded-mode flag fallback_mode.
DegradedResponseIsFlagged ==
    (ep_response # <<>> /\ ep_response[1].code = 200
       /\ ep_response[1].substituted # {}) =>
        "fallback_mode" \in ep_response[1].fields

(***************************************************************************)
(* Roster Needs Analyzer: which picks reach a roster                       *)
(***************************************************************************)
\* the team the seat mapper gives for a pick of the analysed draft
SeatOf(pick) ==
    _calculate_team_index(pick.pick_no, draft_info[1].teams,
                          draft_info[1].type)

\* In every analysis returned, each team holds exactly the picks that
\* Counted admits and the seat mapper gives to it, once each, and its count
\* of a position is the number of those picks with that position.
AddedAsMapped(Counted(_)) ==
    \A n \in DOMAIN an_results :
        LET rosters == an_results[n].team_rosters IN
        \A t \in DOMAIN rosters :
            LET mine == {i \in DOMAIN draft_picks :
                            Counted(draft_picks[i])
                            /\ SeatOf(draft_picks[i]) = t}
                held == rosters[t].picks
            IN  /\ Len(held) = Cardinality(mine)
                /\ {<<held[k].pick_no, held[k].player_id>> : k \in DOMAIN held}
                     = {<<draft_picks[i].pick_no, draft_picks[i].player_id>> :
                          i \in mine}
                /\ \A p \in PositionKeys :
                      rosters[t].position_counts[p]
                        = Cardinality({i \in mine :
                              PositionOf(draft_picks[i].player_id) = p})

HasPlayerAndPickNo(pick) == pick.player_id # None /\ pick.pick_no >= 1
HasPlayerPickNoAndRound(pick) ==
    pick.player_id # None /\ pick.pick_no >= 1 /\ pick.round >= 1

\* C18: analyze adds every pick with a non-null player id and a pick number
\* >= 1 to exactly one team, the one the seat mapper gives, and increments
\* that team's count of the player's position by one; picks with a null
\* player or a non-positive pick number are the only picks left out.
EveryNumberedPickAdded == AddedAsMapped(HasPlayerAndPickNo)

\* C18 (amended): analyze adds every pick with a non-null player id, a pick
\* number >= 1 and a round >= 1 to exactly one team, the one the seat mapper
\* gives, and increments that team's count of the player's position by one;
\* picks with a null player, a non-positive pick number or a non-positive
\* round are the only picks left out.
EveryRoundedPickAdded == AddedAsMapped(HasPlayerPickNoAndRound)

EveryRoundedPickAddedWitness ==
    /\ an_results # <<>>
    /\ draft_info[1].teams = 2 /\ draft_info[1].type = "snake"
    /\ Len(draft_picks) = 4
    /\ draft_picks[3].round = 0
    /\ Len(an_results[1].team_rosters[1].picks) = 1
    /\ an_results[1].team_rosters[1].picks[1].pick_no = 2
    /\ Len(an_results[1].team_rosters[0].picks) = 2
    /\ an_results[1].team_rosters[0].position_counts["RB"] = 2

(***************************************************************************)
(* Roster Needs Analyzer: needs tiers and strength score of one roster.    *)
(* _analyze_team_needs is applied to rosters of every position count, up   *)
(* to rounds the small drafts above do not reach.                          *)
(***************************************************************************)
MaxStarters        == 2    \* most QB, most TE of a roster
MaxCount           == 5    \* most RB, most WR of a roster
MaxRoundsCompleted == 14   \* latest round of a roster's last pick

PositionOrder == <<"QB", "RB", "WR", "TE", "K", "DEF", "Unknown">>
PlayerAt(position) ==
    CASE position = "RB" -> "p1" [] position = "WR" -> "p2"
      [] position = "QB" -> "p3" [] position = "TE" -> "p4"
      [] position = "K" -> "p5"  [] position = "DEF" -> "p6"
      [] OTHER -> "p7"

\* the positions of a roster's picks, counts[p] picks of each position p
RECURSIVE PositionsPicked(_, _)
PositionsPicked(counts, k) ==
    IF k > Len(PositionOrder) THEN <<>>
    ELSE [i \in 1..counts[PositionOrder[k]] |-> PositionOrder[k]]
         \o PositionsPicked(counts, k + 1)

\* the roster the pick loop leaves for these picks, the last of them made
\* in round `rounds`
RosterOf(counts, rounds) ==
    LET picked == PositionsPicked(counts, 1)
        picks  == [i \in DOMAIN picked |->
                     [pick_no |-> i,
                      round |-> IF i = Len(picked) THEN rounds
                                ELSE Min2(i, rounds),
                      player_id |-> PlayerAt(picked[i]),
                      position |-> picked[i]]]
    IN  [team_index |-> 0, picks |-> picks,
         positions |-> [p \in PositionKeys |->
                          SelectSeq(picks, LAMBDA pk : pk.position = p)],
         position_counts |-> counts,
         total_picks |-> Len(picks),
         rounds_completed |-> rounds]

PositionCounts ==
    { c \in [PositionKeys -> 0..MaxCount] :
        /\ c["QB"] <= MaxStarters /\ c["TE"] <= MaxStarters
        /\ c["K"] <= 1 /\ c["DEF"] <= 1 /\ c["Unknown"] <= 1 }

RECURSIVE SumCounts(_, _)
SumCounts(counts, k) ==
    IF k > Len(PositionOrder) THEN 0
    ELSE counts[PositionOrder[k]] + SumCounts(counts, k + 1)

NdInit ==
    /\ \E counts \in PositionCounts, rounds \in 0..MaxRoundsCompleted :
          /\ (rounds = 0) = (SumCounts(counts, 1) = 0)
          /\ nd_roster = <<RosterOf(counts, rounds)>>
    /\ nd_analysed = <<>>
    /\ nd_previous = <<>>
    /\ SeatIdle /\ AnIdle /\ ClsIdle /\ RankIdle /\ VbdIdle /\ RsIdle /\ RfIdle /\ FmIdle /\ EpIdle /\ VmIdle /\ QIdle /\ TaIdle /\ BdIdle /\ RecIdle

\* roster.update(self._analyze_team_needs(roster, total_rounds))
AnalyzeNeeds ==
    /\ nd_analysed = <<>>
    /\ nd_analysed' = <<_analyze_team_needs(nd_roster[1])>>
    /\ UNCHANGED <<nd_roster, nd_previous>>
    /\ UNCHANGED <<seatVars, anVars, clsVars, rankVars, vbdVars, rsVars, rfVars, fmVars, epVars, vmVars, qVars, taVars, boardVars, recVars>>

NdNext == AnalyzeNeeds

SpecNeeds == NdInit /\ [][NdNext]_vars

Members(list) == {list[i] : i \in DOMAIN list}

\* C19: for every map of position counts and every rounds-completed value,
\* critical holds QB iff QB = 0, RB iff RB < 2, WR iff WR < 2, TE iff
\* TE = 0; important holds RB iff RB < 3, WR iff WR < 3, QB iff QB < 2, TE
\* iff TE < 2, K iff K = 0 and rounds completed > 12, DEF iff DEF = 0 and
\* rounds completed > 13; depth holds RB iff RB < 4 and WR iff WR < 5.
NeedsTiers ==
    nd_analysed # <<>> =>
        LET c == nd_roster[1].position_counts
            rounds == nd_roster[1].rounds_completed
            needs == nd_analysed[1].needs
        IN  /\ Members(needs.critical) =
                  {p \in {"QB", "TE"} : c[p] = 0}
                    \cup {p \in {"RB", "WR"} : c[p] < 2}
            /\ Members(needs.important) =
                  {p \in {"RB", "WR"} : c[p] < 3}
                    \cup {p \in {"QB", "TE"} : c[p] < 2}
                    \cup {p \in {"K"} : c[p] = 0 /\ rounds > 12}
                    \cup {p \in {"DEF"} : c[p] = 0 /\ rounds > 13}
            /\ Members(needs.depth) =
                  {p \in {"RB"} : c[p] < 4} \cup {p \in {"WR"} : c[p] < 5}

NeedsTiersWitness ==
    /\ nd_analysed # <<>>
    /\ nd_roster[1].rounds_completed = 13
    /\ nd_roster[1].position_counts["K"] = 0
    /\ nd_roster[1].position_counts["DEF"] = 0
    /\ nd_roster[1].position_counts["RB"] = 3
    /\ nd_roster[1].position_counts["WR"] = 5
    /\ nd_analysed[1].needs.important = <<"QB", "TE", "K">>
    /\ nd_analysed[1].needs.depth = <<"RB">>

\* C20: for every map of non-negative position counts, the empty roster
\* included, the team strength score lies in 0..100.
StrengthInRange ==
    nd_analysed # <<>> =>
        /\ nd_analysed[1].strength_score >= 0
        /\ nd_analysed[1].strength_score <= 100

(***************************************************************************)
(* Roster Needs Analyzer: the roster grows by one pick and is analysed     *)
(* again.                                                                  *)
(***************************************************************************)
ScoredPositions == {"QB", "RB", "WR", "TE", "K", "DEF"}

\* the team drafts one more player of a scored position; the next call of
\* analyze_team_rosters counts and scores the roster anew
DraftOneMore ==
    /\ nd_analysed # <<>>
    /\ nd_previous = <<>>
    /\ \E p \in ScoredPositions :
          LET counts == [nd_roster[1].position_counts EXCEPT ![p] = @ + 1]
              grown  == RosterOf(counts,
                                 Max2(nd_roster[1].rounds_completed, 1))
          IN  /\ counts \in PositionCounts
              /\ nd_roster' = <<grown>>
              /\ nd_analysed' = <<_analyze_team_needs(grown)>>
              /\ nd_previous' =
                     <<[position |-> p,
                        strength_score |-> nd_analysed[1].strength_score]>>
    /\ UNCHANGED <<seatVars, anVars, clsVars, rankVars, vbdVars, rsVars, rfVars, fmVars, epVars, vmVars, qVars, taVars, boardVars, recVars>>

GrowNext == AnalyzeNeeds \/ DraftOneMore

SpecGrow == NdInit /\ [][GrowNext]_vars

\* C21: incrementing the count of any single position (QB, RB, WR, TE, K or
\* DEF) of any position-count map by one never decreases the team strength
\* score.
StrengthMonotone ==
    nd_previous # <<>> =>
        nd_analysed[1].strength_score >= nd_previous[1].strength_score

StrengthMonotoneWitness ==
    /\ nd_previous # <<>>
    /\ nd_previous[1].position = "QB"
    /\ nd_roster[1].position_counts["QB"] = 2
    /\ nd_roster[1].position_counts["RB"] = 0
    /\ nd_previous[1].strength_score = -15
    /\ nd_analysed[1].strength_score = -10

(***************************************************************************)
(* Value-Based-Drafting Engine: the replacement index in closed form       *)
(***************************************************************************)
\* the replacement index as the sum of its four terms, in tenths: starters,
\* 0.3 of the flex slots, 0.2 of the superflex slots, bench demand
IndexTenths(position, league_format, L) ==
    LET req == IF position \in {"RB", "WR"} THEN 2 ELSE 1
        flexTerm == IF position \in {"RB", "WR", "TE"} THEN 3 * 1 * L ELSE 0
        superflexTerm ==
            IF league_format = "superflex"
               /\ position \in {"QB", "RB", "WR", "TE"}
            THEN 2 * 1 * L ELSE 0
        benchMult == CASE position = "QB" -> 5  [] position = "RB" -> 15
                       [] position = "WR" -> 12 [] position = "TE" -> 8
                       [] position = "K" -> 1   [] position = "DEF" -> 2
    IN  10 * req * L + flexTerm + superflexTerm + benchMult * req * L

\* C23: for each position p, lineup format and league size L the replacement
\* index is floor(req(p)*L + flexTerm + superflexTerm + benchMult(p)*req(p)*L)
\* with flexTerm = 0.3*flexSlots*L iff p is RB, WR or TE, superflexTerm =
\* 0.2*superflexSlots*L iff the format is superflex and p is QB, RB, WR or
\* TE, and benchMult QB 0.5, RB 1.5, WR 1.2, TE 0.8, K 0.1, DEF 0.2.
ReplacementIndexClosedForm ==
    \A a \in DOMAIN vbd_demand :
        LET tenths == IndexTenths(vbd_position, vbd_format,
                                  vbd_demand[a].league_size)
        IN  /\ 10 * vbd_demand[a].total_demand <= tenths
            /\ tenths < 10 * (vbd_demand[a].total_demand + 1)

ReplacementIndexClosedFormWitness ==
    /\ vbd_position = "RB" /\ vbd_format = "superflex"
    /\ Len(vbd_demand) = 1
    /\ vbd_demand[1] = [league_size |-> 12, total_demand |-> 66]

(***************************************************************************)
(* Value-Based-Drafting Engine: baselines and the ranking by value.        *)
(* A player is [id, position, rank, tier, projected_points]; tier and      *)
(* projected_points are <<>> when the key is missing.  Points are whole    *)
(* numbers; the scarcity multipliers are kept in tenths, so vbd_value is   *)
(* kept in tenths of a point, which round(x, 2) leaves as it is.           *)
(***************************************************************************)
MaxPlayers      == 3   \* longest player list
MaxVmLeagueSize == 2   \* largest league_size of a metrics call

\* sorted(xs, key=Key, reverse=True): descending, equal keys keep the order
\* of the list
SortedReverse(xs, Key(_)) ==
    LET Place(i) ==
            1 + Cardinality({j \in DOMAIN xs :
                    \/ Key(xs[j]) > Key(xs[i])
                    \/ (Key(xs[j]) = Key(xs[i]) /\ j < i)})
    IN  [q \in DOMAIN xs |-> xs[CHOOSE i \in DOMAIN xs : Place(i) = q]]

point_estimates ==
    [QB  |-> <<320, 300, 280, 260, 240, 220, 200, 180>>,
     RB  |-> <<280, 250, 220, 200, 180, 160, 140, 120>>,
     WR  |-> <<260, 230, 200, 180, 160, 140, 120, 100>>,
     TE  |-> <<180, 150, 130, 110, 95, 85, 75, 65>>,
     K   |-> <<140, 130, 125, 120, 115, 110, 105, 100>>]
     @@ ("DEF" :> <<150, 140, 130, 125, 120, 115, 110, 105>>)

\* _estimate_points_from_tier: <<points>>, or <<>> for None
_estimate_points_from_tier(player) ==
    IF player.tier = <<>> THEN <<>>
    ELSE LET tier == player.tier[1]
             position_estimates ==
                 IF player.position \in DOMAIN point_estimates
                 THEN point_estimates[player.position] ELSE <<>>
         IN  IF tier \in DOMAIN position_estimates
             THEN <<position_estimates[tier]>>
             ELSE IF tier > 8
             THEN LET base_points == IF 8 \in DOMAIN position_estimates
                                     THEN position_estimates[8] ELSE 100
                  IN  <<Max2(50, base_points - (tier - 8) * 10)>>
             ELSE <<>>

\* player.get('projected_points', self._estimate_points_from_tier(player))
PointsOrEstimate(player) ==
    IF player.projected_points # <<>> THEN player.projected_points
    ELSE _estimate_points_from_tier(player)

\* the sort key of _calculate_baselines:
\* x.get('projected_points', x.get('tier', 999))
BaselineSortKey(x) ==
    IF x.projected_points # <<>> THEN x.projected_points[1]
    ELSE IF x.tier # <<>> THEN x.tier[1] ELSE 999

\* the body of the loop of _calculate_baselines for one position with
\* players: <<baseline>>, or <<>> for None
position_baseline(position_players, position, league_format, league_size) ==
    LET sorted_players == SortedReverse(position_players, BaselineSortKey)
        demand == total_demand(position, league_format, league_size)
    IN  IF Len(sorted_players) > demand
        THEN PointsOrEstimate(sorted_players[demand + 1])
        ELSE PointsOrEstimate(sorted_players[Len(sorted_players)])

_calculate_baselines(players, league_format, league_size) ==
    [position \in {players[i].position : i \in DOMAIN players}
                    \cap VbdPositions |->
        position_baseline(
            SelectSeq(players, LAMBDA x : x.position = position),
            position, league_format, league_size)]

scarcity_multipliers_x10 ==
    [QB |-> 10, RB |-> 13, WR |-> 11, TE |-> 15, K |-> 8] @@ ("DEF" :> 8)

\* _calculate_player_vbd: <<the player with its metrics>>, <<>> for None;
\* a baseline of None makes the subtraction raise
PlayerVbdRaises(player, baselines) ==
    /\ player.position \in DOMAIN baselines
    /\ PointsOrEstimate(player) # <<>>
    /\ baselines[player.position] = <<>>
_calculate_player_vbd(player, baselines) ==
    IF player.position \notin DOMAIN baselines
       \/ PointsOrEstimate(player) = <<>>
       \/ baselines[player.position] = <<>>
    THEN <<>>
    ELSE LET projected == PointsOrEstimate(player)[1]
             raw_vbd == projected - baselines[player.position][1]
         IN  <<[id |-> player.id, position |-> player.position,
                rank |-> player.rank, tier |-> player.tier,
                vbd_value |->
                    raw_vbd * scarcity_multipliers_x10[player.position],
                raw_vbd |-> raw_vbd,
                baseline_points |-> baselines[player.position][1],
                projected_points |-> projected]>>

RECURSIVE WithVbd(_, _, _)
WithVbd(players, baselines, i) ==
    IF i > Len(players) THEN <<>>
    ELSE _calculate_player_vbd(players[i], baselines)
         \o WithVbd(players, baselines, i + 1)

\* vbd_players.sort(key=vbd_value, reverse=True), then the vbd_rank loop
rank_by_vbd(vbd_players) ==
    LET Key(x) == x.vbd_value
        sorted == SortedReverse(vbd_players, Key)
    IN  [i \in DOMAIN sorted |->
            [id |-> sorted[i].id, position |-> sorted[i].position,
             rank |-> sorted[i].rank, vbd_value |-> sorted[i].vbd_value,
             raw_vbd |-> sorted[i].raw_vbd,
             baseline_points |-> sorted[i].baseline_points,
             projected_points |-> sorted[i].projected_points,
             vbd_rank |-> i]]

\* calculate_vbd_metrics from the baselines on; an exception gives the
\* error result
metrics_with_baselines(players, baselines) ==
    IF \E i \in DOMAIN players : PlayerVbdRaises(players[i], baselines)
    THEN [players |-> <<>>, baselines |-> <<>>, error |-> TRUE]
    ELSE [players |-> rank_by_vbd(WithVbd(players, baselines, 1)),
          baselines |-> baselines, error |-> FALSE]

calculate_vbd_metrics(players, league_format, league_size) ==
    metrics_with_baselines(players,
        _calculate_baselines(players, league_format, league_size))

\* ---- the player lists of the model ----
PlayerKinds ==
    { [position |-> "QB", tier |-> <<1>>, projected_points |-> <<>>],
      [position |-> "QB", tier |-> <<2>>, projected_points |-> <<>>],
      [position |-> "QB", tier |-> <<9>>, projected_points |-> <<>>],
      [position |-> "QB", tier |-> <<2>>, projected_points |-> <<310>>],
      [position |-> "QB", tier |-> <<>>, projected_points |-> <<>>],
      [position |-> "K", tier |-> <<1>>, projected_points |-> <<>>],
      [position |-> "LB", tier |-> <<1>>, projected_points |-> <<>>] }
RankOrders == {"ascending", "descending"}
\* the list of these kinds, ranked in list order or against it
PlayerList(kinds, order) ==
    [i \in DOMAIN kinds |->
        [id |-> i, position |-> kinds[i].position,
         rank |-> IF order = "ascending" THEN i ELSE Len(kinds) + 1 - i,
         tier |-> kinds[i].tier,
         projected_points |-> kinds[i].projected_points]]

VmInit ==
    /\ \E n \in 0..MaxPlayers :
          \E kinds \in [1..n -> PlayerKinds], order \in RankOrders :
              vm_players = PlayerList(kinds, order)
    /\ vm_league_format \in {"standard", "superflex"}
    /\ vm_league_size \in 1..MaxVmLeagueSize
    /\ vm_result = <<>>
    /\ SeatIdle /\ AnIdle /\ ClsIdle /\ RankIdle /\ VbdIdle /\ RsIdle /\ RfIdle /\ FmIdle /\ EpIdle /\ NdIdle /\ QIdle /\ TaIdle /\ BdIdle /\ RecIdle

\* one call of calculate_vbd_metrics
CalculateMetrics ==
    /\ vm_result = <<>>
    /\ vm_result' = <<calculate_vbd_metrics(vm_players, vm_league_format,
                                            vm_league_size)>>
    /\ UNCHANGED <<vm_players, vm_league_format, vm_league_size>>
    /\ UNCHANGED <<seatVars, anVars, clsVars, rankVars, vbdVars, rsVars, rfVars, fmVars, epVars, ndVars, qVars, taVars, boardVars, recVars>>

VmNext == CalculateMetrics

SpecMetrics == VmInit /\ [][VmNext]_vars

\* C22: for each position the baseline returned by compute is the projected
\* points (estimated from tier when not supplied) of the player at index k
\* of that position's players ordered by projected points descending, k the
\* replacement index, or of the lowest-projected player when k is not
\* smaller than the number of players at the position.
BaselineIsReplacementLevel ==
    (vm_result # <<>> /\ ~vm_result[1].error) =>
        \A p \in DOMAIN vm_result[1].baselines :
            LET at == {i \in DOMAIN vm_players : vm_players[i].position = p}
                Pts(i) == PointsOrEstimate(vm_players[i])
                k == total_demand(p, vm_league_format, vm_league_size)
                b == vm_result[1].baselines[p]
            IN  (\A i \in at : Pts(i) # <<>>) =>
                   /\ b # <<>>
                   /\ \E i \in at : Pts(i) = b
                   /\ IF k < Cardinality(at)
                      THEN /\ Cardinality({i \in at : Pts(i)[1] > b[1]}) <= k
                           /\ k < Cardinality({i \in at : Pts(i)[1] >= b[1]})
                      ELSE \A i \in at : Pts(i)[1] >= b[1]

\* C24: the players returned by compute are ordered by scarcity-adjusted
\* VBD descending, two players of equal value by their original rank
\* ascending, whatever the order of the input list; vbd_rank is the 1-based
\* position in that order.
RankedByValueThenRank ==
    vm_result # <<>> =>
        LET ranked == vm_result[1].players IN
        /\ \A i \in DOMAIN ranked : ranked[i].vbd_rank = i
        /\ \A i, j \in DOMAIN ranked :
              i < j => \/ ranked[i].vbd_value > ranked[j].vbd_value
                       \/ /\ ranked[i].vbd_value = ranked[j].vbd_value
                          /\ ranked[i].rank < ranked[j].rank

(***************************************************************************)
(* League Classifier: what format detection returns                        *)
(***************************************************************************)
\* the league JSON is there and its scoring settings and roster positions
\* are not null
WellFormed(json) ==
    /\ json.shape.league = "value"
    /\ json.shape.scoring_settings # "null"
    /\ json.shape.roster_positions # "null"

\* C25: format detection returns scoring format standard when the reception
\* weight is 0, half_ppr when 0.5, ppr when 1.0 and half_ppr for any other
\* value, and lineup format superflex iff the roster-position list holds
\* more than one QB slot or a SUPER_FLEX slot, otherwise standard; a missing
\* or malformed configuration yields (half_ppr, superflex).
FormatDetected ==
    \A n \in DOMAIN fm_detected :
        LET json == fm_detected[n].json
            format == fm_detected[n].format
            weights == {json.scoring_settings[i][2] :
                          i \in DOMAIN json.scoring_settings}
            slots == json.roster_positions
        IN  IF WellFormed(json)
            THEN /\ \A w \in weights :
                       format[1] = CASE w = 0 -> "standard"
                                     [] w = 5 -> "half_ppr"
                                     [] w = 10 -> "ppr"
                                     [] OTHER -> "half_ppr"
                 /\ format[2] \in {"superflex", "standard"}
                 /\ format[2] = "superflex" <=>
                       \/ Cardinality({i \in DOMAIN slots :
                                          slots[i] = "QB"}) > 1
                       \/ \E i \in DOMAIN slots : slots[i] = "SUPER_FLEX"
            ELSE format = <<"half_ppr", "superflex">>

FormatDetectedWitness ==
    /\ Len(fm_detected) = 2
    /\ fm_detected[1].json.scoring_settings = << <<"rec", 8>> >>
    /\ fm_detected[1].json.roster_positions = <<"QB", "QB", "RB">>
    /\ fm_detected[1].format = <<"half_ppr", "superflex">>
    /\ fm_detected[2].json.roster_positions = <<"RB", "QB", "QB">>

(***************************************************************************)
(* Available-players query: the advanced filters and the limit.  The       *)
(* rankings manager hands over the first entries of the available players  *)
(* in rank order; names and teams are text as above.                       *)
(***************************************************************************)
MaxAvailable  == 3   \* available entries the rankings hold
MaxQueryLimit == 2   \* largest limit of a query

\* str.lower()
LowerChar(c) ==
    IF \E i \in DOMAIN UpperCase : UpperCase[i] = c
    THEN LowerCase[CHOOSE i \in DOMAIN UpperCase : UpperCase[i] = c]
    ELSE c
Lower(str) == [i \in 1..Len(str) |-> LowerChar(str[i])]

\* what get_available_players(..., limit=n) of the rankings manager returns
\* of the available entries: its .head(n)
ManagerHead(available, n) == SubSeq(available, 1, Min2(n, Len(available)))

\* _apply_advanced_filters; an empty search term or team is not applied
_apply_advanced_filters(players, filters) ==
    LET Passes(player) ==
            /\ filters.search # <<>> =>
                  Contains(Lower(filters.search), Lower(player.name))
            /\ filters.team # <<>> =>
                  Upper(player.team) = Upper(filters.team)
            /\ filters.tier # <<>> => player.tier = filters.tier[1]
            /\ filters.bye_week # <<>> =>
                  player.bye_week = filters.bye_week[1]
            /\ filters.min_rank # <<>> => player.rank >= filters.min_rank[1]
            /\ filters.max_rank # <<>> => player.rank <= filters.max_rank[1]
    IN  SelectSeq(players, Passes)

\* the try block of the endpoint: limit * 2 entries are asked for, filtered,
\* and cut to the limit
query_available_players(available, filters, lim) ==
    ManagerHead(_apply_advanced_filters(ManagerHead(available, lim * 2),
                                        filters),
                lim)

EntryKinds ==
    { [name |-> Al, team |-> <<"K", "C">>, tier |-> 1, bye_week |-> 7],
      [name |-> Bo, team |-> <<"S", "F">>, tier |-> 2, bye_week |-> 9],
      [name |-> Al \o Bo, team |-> <<"S", "F">>, tier |-> 1, bye_week |-> 7] }
QueryFilters ==
    [search : {<<>>, <<"a", "L">>}, team : {<<>>, <<"s", "f">>},
     tier : {<<>>, <<1>>}, bye_week : {<<>>, <<7>>},
     min_rank : {<<>>, <<2>>}, max_rank : {<<>>, <<2>>}]

QInit ==
    /\ \E n \in 0..MaxAvailable : \E kinds \in [1..n -> EntryKinds] :
          q_available = [i \in 1..n |->
              [name |-> kinds[i].name, team |-> kinds[i].team,
               tier |-> kinds[i].tier, bye_week |-> kinds[i].bye_week,
               rank |-> i]]
    /\ q_filters \in QueryFilters
    /\ q_limit \in 1..MaxQueryLimit
    /\ q_returned = <<>>
    /\ SeatIdle /\ AnIdle /\ ClsIdle /\ RankIdle /\ VbdIdle /\ RsIdle /\ RfIdle /\ FmIdle /\ EpIdle /\ NdIdle /\ VmIdle /\ TaIdle /\ BdIdle /\ RecIdle

\* GET /draft/<draft_id>/available-players with these filters and limit
QueryAvailable ==
    /\ q_returned = <<>>
    /\ q_returned' = <<query_available_players(q_available, q_filters,
                                               q_limit)>>
    /\ UNCHANGED <<q_available, q_filters, q_limit>>
    /\ UNCHANGED <<seatVars, anVars, clsVars, rankVars, vbdVars, rsVars, rfVars, fmVars, epVars, ndVars, vmVars, taVars, boardVars, recVars>>

QNext == QueryAvailable

SpecQuery == QInit /\ [][QNext]_vars

\* an entry passes every filter that is supplied
PassesAllSupplied(entry) ==
    /\ q_filters.search # <<>> =>
          Contains(Lower(q_filters.search), Lower(entry.name))
    /\ q_filters.team # <<>> => Upper(entry.team) = Upper(q_filters.team)
    /\ q_filters.tier # <<>> => entry.tier = q_filters.tier[1]
    /\ q_filters.bye_week # <<>> => entry.bye_week = q_filters.bye_week[1]
    /\ q_filters.min_rank # <<>> => entry.rank >= q_filters.min_rank[1]
    /\ q_filters.max_rank # <<>> => entry.rank <= q_filters.max_rank[1]

\* C26: for every combination of supplied filters and limit L the query
\* returns exactly the first L entries, in ascending rank order, of the
\* available entries that pass all supplied filters, or all of them when
\* fewer than L pass.
QueryReturnsFirstPassing ==
    q_returned # <<>> =>
        LET passing == SelectSeq(q_available, PassesAllSupplied)
        IN  q_returned[1]
              = SubSeq(passing, 1, Min2(q_limit, Len(passing)))

(***************************************************************************)
(* Team-analysis endpoint: the picks with names go to the analyzer.        *)
(***************************************************************************)
\* what the loop of analyze_team_rosters reads of one entry of its list:
\* pick.get('pick_no', 0), pick.get('round', 0), pick.get('player_id')
PickAsRead(pick) ==
    [pick_no   |-> Get(pick, "pick_no", 0),
     round     |-> Get(pick, "round", 0),
     player_id |-> Get(pick, "player_id", None)]

\* get_drafted_players_with_names of picks and directory that were fetched
drafted_players_with_names(picks, players) ==
    LET HasPlayer(pick) == pick.player_id # None
        with == SelectSeq(picks, HasPlayer)
    IN  [i \in DOMAIN with |-> EnhancedPick(with[i], players)]

TaOutcomes == {"ok", "no_draft", "picks_raise", "players_raise"}

\* get_team_analysis; outcome says what the calls upstream met
get_team_analysis(outcome, info, upstream_picks) ==
    CASE outcome = "no_draft"      ->
            [code |-> 404, error |-> "DRAFT_NOT_FOUND", team_analysis |-> <<>>]
      [] outcome = "picks_raise"   ->
            [code |-> 500, error |-> "PICKS_ERROR", team_analysis |-> <<>>]
      [] outcome = "players_raise" ->
            [code |-> 500, error |-> "PLAYER_DATA_ERROR",
             team_analysis |-> <<>>]
      [] OTHER ->
            LET picks == drafted_players_with_names(upstream_picks,
                                                    all_players)
                read  == [i \in DOMAIN picks |-> PickAsRead(picks[i])]
            IN  [code |-> 200, error |-> "",
                 team_analysis |-> <<analyze_team_rosters(read, info)>>]

\* GET /draft/<draft_id>/team-analysis
ServeTeamAnalysis ==
    /\ ta_response = <<>>
    /\ \E outcome \in TaOutcomes :
          ta_response' = <<get_team_analysis(outcome, draft_info[1],
                                             draft_picks)>>
    /\ UNCHANGED <<seatVars, anVars, clsVars, rankVars, vbdVars, rsVars, rfVars, fmVars, epVars, ndVars, vmVars, qVars, boardVars, recVars>>

TaNext == ServeTeamAnalysis

SpecTeamAnalysis == AnInit /\ [][TaNext]_vars

\* the picks upstream that have a player, a pick number and a round
NumberedUpstreamPicks ==
    {i \in DOMAIN draft_picks :
        /\ draft_picks[i].player_id # None
        /\ draft_picks[i].pick_no >= 1
        /\ draft_picks[i].round >= 1}

\* the teams whose roster holds the pick with this pick number
TeamsHolding(rosters, pick_no) ==
    {t \in DOMAIN rosters :
        \E k \in DOMAIN rosters[t].picks : rosters[t].picks[k].pick_no = pick_no}

\* C27: in the team-analysis flow every drafted pick that has a player id,
\* a pick number of at least 1 and a round of at least 1 upstream appears in
\* exactly one team's roster of the response, so total_picks_made equals the
\* number of such picks.
TeamAnalysisCountsEveryPick ==
    (ta_response # <<>> /\ ta_response[1].code = 200) =>
        LET analysis == ta_response[1].team_analysis[1]
        IN  /\ \A i \in NumberedUpstreamPicks :
                  Cardinality(TeamsHolding(analysis.team_rosters,
                                           draft_picks[i].pick_no)) = 1
            /\ analysis.analysis_summary.total_picks_made
                  = Cardinality(NumberedUpstreamPicks)

(***************************************************************************)
(* Draft board: the team a pick is filed under.                            *)
(***************************************************************************)
MaxBoardTeams  == 3   \* team counts of the board
MaxBoardRounds == 3   \* rounds of the board, and rounds a pick may carry
MaxBoardPick   == 7   \* pick numbers a pick may carry

\* the team index the loop computes of pick number and round as it read them
board_team_index(pick_number, round_number, total_teams, draft_type) ==
    IF draft_type = "snake"
    THEN IF round_number % 2 = 1
         THEN (pick_number - 1) % total_teams
         ELSE total_teams - 1 - ((pick_number - 1) % total_teams)
    ELSE (pick_number - 1) % total_teams

\* the body of the loop "Fill in actual picks" for one entry of the list:
\* <<team index, round>> where the entry is filed, <<>> when it is not
file_board_pick(entry, info) ==
    LET pick_number  == Get(entry, "pick_no", 0)
        round_number == Get(entry, "round", 0)
    IN  IF pick_number > 0 /\ round_number > 0
        THEN LET team_index == board_team_index(pick_number, round_number,
                                                info.teams, info.type)
             IN  IF /\ 0 <= team_index /\ team_index < info.teams
                    /\ 1 <= round_number /\ round_number <= info.rounds
                 THEN <<[team_index |-> team_index, round |-> round_number]>>
                 ELSE <<>>
        ELSE <<>>

\* get_draft_board of a draft with one pick upstream: the entry of
\* get_drafted_players_with_names goes through the loop
get_draft_board(pick, info) ==
    LET picks == drafted_players_with_names(<<pick>>, all_players)
    IN  IF picks = <<>> THEN <<>> ELSE file_board_pick(picks[1], info)

BdInit ==
    /\ \E n \in 0..MaxBoardPick, r \in 0..MaxBoardRounds :
          bd_pick = <<[pick_no |-> n, round |-> r, player_id |-> "p1"]>>
    /\ \E T \in 1..MaxBoardTeams, R \in 1..MaxBoardRounds, ty \in DraftTypes :
          bd_info = <<[teams |-> T, rounds |-> R, type |-> ty]>>
    /\ bd_filed = <<>>
    /\ SeatIdle /\ AnIdle /\ ClsIdle /\ RankIdle /\ VbdIdle /\ RsIdle /\ RfIdle /\ FmIdle /\ EpIdle /\ NdIdle /\ VmIdle /\ QIdle /\ TaIdle /\ RecIdle

\* GET /draft/<draft_id>/board
ServeDraftBoard ==
    /\ bd_filed = <<>>
    /\ bd_filed' = <<get_draft_board(bd_pick[1], bd_info[1])>>
    /\ UNCHANGED <<bd_pick, bd_info>>
    /\ UNCHANGED <<seatVars, anVars, clsVars, rankVars, vbdVars, rsVars, rfVars, fmVars, epVars, ndVars, vmVars, qVars, taVars, recVars>>

BdNext == ServeDraftBoard

SpecBoard == BdInit /\ [][BdNext]_vars

\* the pick upstream has a pick number and a round
BoardPickNumbered == bd_pick[1].pick_no >= 1 /\ bd_pick[1].round >= 1

\* C28: for every pick with pick number >= 1 and round >= 1, every team
\* count and draft type, the draft board files the pick under the team index
\* that TeamAnalyzer._calculate_team_index gives for its pick number.
BoardFilesUnderMapperIndex ==
    (bd_filed # <<>> /\ BoardPickNumbered /\ bd_pick[1].round <= bd_info[1].rounds) =>
        /\ bd_filed[1] # <<>>
        /\ bd_filed[1][1].team_index
              = _calculate_team_index(bd_pick[1].pick_no, bd_info[1].teams,
                                      bd_info[1].type)

\* The index computation alone, on the pick number and round upstream,
\* against the mapper of the analyzer.
BoardIndexIsMapperIndex ==
    BoardPickNumbered =>
        board_team_index(bd_pick[1].pick_no, bd_pick[1].round,
                         bd_info[1].teams, bd_info[1].type)
          = _calculate_team_index(bd_pick[1].pick_no, bd_info[1].teams,
                                  bd_info[1].type)

\* The index computation agrees with the mapper when the round of the pick
\* is the round of its pick number.
BoardIndexIsMapperIndexOfItsRound ==
    (BoardPickNumbered
       /\ bd_pick[1].round
            = ((bd_pick[1].pick_no - 1) \div bd_info[1].teams) + 1) =>
        board_team_index(bd_pick[1].pick_no, bd_pick[1].round,
                         bd_info[1].teams, bd_info[1].type)
          = _calculate_team_index(bd_pick[1].pick_no, bd_info[1].teams,
                                  bd_info[1].type)

(***************************************************************************)
(* Draft recommendations.  vbd_value is in tenths as above; a score is in  *)
(* ten-thousandths (tenths x need boost in tenths x scarcity boost in      *)
(* hundredths) until it is rounded to hundredths for the response.         *)
(***************************************************************************)
MaxRecPlayers == 2   \* available players handed to the recommender
MaxRecLimit   == 2   \* largest num_recommendations

\* round(score, 2) of a score in ten-thousandths, in hundredths
RoundHundredths(x) ==
    LET q == x \div 100
        r == x % 100
    IN  IF r > 50 \/ (r = 50 /\ q % 2 = 1) THEN q + 1 ELSE q

\* position in needs, for a list of positions
InNeeds(position, needs) == \E k \in DOMAIN needs : needs[k] = position

\* the score of one player that is not skipped
recommendation_score(player, critical_needs, important_needs) ==
    LET need_boost ==
            IF InNeeds(player.position, critical_needs) THEN 15
            ELSE IF InNeeds(player.position, important_needs) THEN 12
            ELSE 10
        scarcity_boost ==
            IF player.position_scarcity = "High" THEN 110
            ELSE IF player.position_scarcity = "Medium" THEN 105
            ELSE 100
    IN  player.vbd_value * need_boost * scarcity_boost

get_draft_recommendations(available_players, team_needs, num_recommendations) ==
    LET critical_needs  == Get(team_needs, "critical", <<>>)
        important_needs == Get(team_needs, "important", <<>>)
        HasValue(player) == player.vbd_value # 0
        kept == SelectSeq(available_players, HasValue)
        scored_players ==
            [i \in DOMAIN kept |->
                [player |-> kept[i],
                 recommendation_score |->
                     recommendation_score(kept[i], critical_needs,
                                          important_needs),
                 vbd_value |-> kept[i].vbd_value,
                 need_priority |->
                     IF InNeeds(kept[i].position, critical_needs)
                     THEN "Critical"
                     ELSE IF InNeeds(kept[i].position, important_needs)
                     THEN "Important" ELSE "Depth"]]
        Score(x) == x.recommendation_score
        sorted == SortedReverse(scored_players, Score)
        top == SubSeq(sorted, 1, Min2(num_recommendations, Len(sorted)))
    IN  [i \in DOMAIN top |->
            [rank |-> i, player |-> top[i].player,
             vbd_value |-> top[i].vbd_value,
             recommendation_score |->
                 RoundHundredths(top[i].recommendation_score),
             need_priority |-> top[i].need_priority]]

RecPositions == {"QB", "K"}
RecValues    == {-200, 0, 200}
RecScarcity  == {"High", "Low"}
RecNeeds ==
    { [critical |-> <<>>, important |-> <<>>],
      [critical |-> <<"QB">>, important |-> <<>>],
      [critical |-> <<>>, important |-> <<"QB">>],
      [critical |-> <<"QB">>, important |-> <<"K">>] }

RecInit ==
    /\ \E n \in 0..MaxRecPlayers :
          \E kinds \in [1..n -> [position : RecPositions,
                                 vbd_value : RecValues,
                                 position_scarcity : RecScarcity]] :
              rc_players = [i \in 1..n |->
                  [player_id |-> i, position |-> kinds[i].position,
                   vbd_value |-> kinds[i].vbd_value,
                   position_scarcity |-> kinds[i].position_scarcity]]
    /\ rc_team_needs \in RecNeeds
    /\ rc_limit \in 1..MaxRecLimit
    /\ rc_result = <<>>
    /\ SeatIdle /\ AnIdle /\ ClsIdle /\ RankIdle /\ VbdIdle /\ RsIdle /\ RfIdle /\ FmIdle /\ EpIdle /\ NdIdle /\ VmIdle /\ QIdle /\ TaIdle /\ BdIdle

\* one call of get_draft_recommendations
Recommend ==
    /\ rc_result = <<>>
    /\ rc_result' = <<get_draft_recommendations(rc_players, rc_team_needs,
                                                rc_limit)>>
    /\ UNCHANGED <<rc_players, rc_team_needs, rc_limit>>
    /\ UNCHANGED <<seatVars, anVars, clsVars, rankVars, vbdVars, rsVars, rfVars, fmVars, epVars, ndVars, vmVars, qVars, taVars, boardVars>>

RecNext == Recommend

SpecRecommend == RecInit /\ [][RecNext]_vars

\* the position is a critical or an important need of the team
IsNeed(position) ==
    \/ InNeeds(position, rc_team_needs.critical)
    \/ InNeeds(position, rc_team_needs.important)

\* the places of a player in the recommendations returned
PlacesOf(player_id) ==
    {a \in DOMAIN rc_result[1] : rc_result[1][a].player.player_id = player_id}

\* C30: of two available players with the same VBD value (positive, zero or
\* negative) and the same scarcity label, the one whose position is a
\* critical or important need never receives a lower recommendation score
\* than, and is never ranked below, the one whose position is not a need.
NeedNeverRankedBelow ==
    rc_result # <<>> =>
        \A i, j \in DOMAIN rc_players :
            (/\ rc_players[i].vbd_value = rc_players[j].vbd_value
             /\ rc_players[i].position_scarcity
                  = rc_players[j].position_scarcity
             /\ IsNeed(rc_players[i].position)
             /\ ~IsNeed(rc_players[j].position)) =>
                /\ PlacesOf(j) # {} => PlacesOf(i) # {}
                /\ \A a \in PlacesOf(i), b \in PlacesOf(j) :
                      /\ a < b
                      /\ rc_result[1][a].recommendation_score
                            >= rc_result[1][b].recommendation_score

\* The same for players whose VBD value is above zero.
NeedNeverRankedBelowAboveZero ==
    rc_result # <<>> =>
        \A i, j \in DOMAIN rc_players :
            (/\ rc_players[i].vbd_value = rc_players[j].vbd_value
             /\ rc_players[i].vbd_value > 0
             /\ rc_players[i].position_scarcity
                  = rc_players[j].position_scarcity
             /\ IsNeed(rc_players[i].position)
             /\ ~IsNeed(rc_players[j].position)) =>
                /\ PlacesOf(j) # {} => PlacesOf(i) # {}
                /\ \A a \in PlacesOf(i), b \in PlacesOf(j) :
                      /\ a < b
                      /\ rc_result[1][a].recommendation_score
                            >= rc_result[1][b].recommendation_score

====
